---- MODULE Spec2Model ----
(***************************************************************************)
(* Valkyrie-FS read path: the two-zone chunk cache (CacheManager), the     *)
(* priority work queue (ThreadSafeQueue), the fetcher pool (S3WorkerPool), *)
(* the predictor and the read orchestrator (fuse_ops::read).               *)
(*                                                                         *)
(* File names (S3 keys) are sequences of one-character strings, so that    *)
(* the empty key is <<>> and the predictor's pattern can be computed.      *)
(* Sizes are scaled: a chunk is DEFAULT_CHUNK_SIZE bytes of the model.     *)
(***************************************************************************)
EXTENDS Integers, Sequences, FiniteSets, TLC

VARIABLES
    max_size,       \* CacheManager::max_size_
    cache,          \* CacheManager: files_, hot_lru_, prefetch_fifo_, current_size_
    now,            \* steady_clock, in microseconds
    relaxed,        \* history: some completed insert_chunk stored a chunk larger than
                    \* max_size after its evict_if_needed had left the cache empty
    script,         \* history: the calls made so far are those of test_lru_eviction,
                    \* in its order, each insert followed by an access of its key
    promoted,       \* history: the key that the last promoting access call of a
                    \* thread driving the cache alone moved from PREFETCH to HOT
    queue_,         \* ThreadSafeQueue::queue_ (the array of the binary heap)
    q_shutdown,     \* ThreadSafeQueue::shutdown_flag_
    tasks,          \* history: every PrefetchTask constructed, by handle
    promise,        \* PrefetchTask::completion, by handle
    shutdown_flag,  \* S3WorkerPool::shutdown_flag_
    wpc, wtask, wcall,            \* fetcher workers: position, task in hand, and the
                                  \* arguments of the insert_chunk call in progress
    rpc, rarg, roff, rsize, rbuf, rchunk, rhandle, rdepth, rresult, rerr, rshort,
                                  \* read callers (one per FUSE thread)
    last_accessed,  \* Predictor::last_accessed_
    in_flight,      \* Predictor::in_flight_
    in_flight_futures,            \* Predictor::in_flight_futures_: (key, handle) pairs
    manifest_mode, manifest,      \* Predictor::manifest_mode_, manifest_
    current,        \* predictor_loop: the copy of last_accessed_ its last turn took
    to_prefetch,    \* predict_and_prefetch: the list its last call built
    ppc, ptodo,     \* predictor thread: position, and the rest of to_prefetch
    ncalls,         \* number of harness/bridge calls made so far (bounds the runs)
    cv_due,         \* ThreadSafeQueue::cv_: the notify_one calls and the notify_all
                    \* owed by threads that have released the mutex
    pop_hist,       \* history, per consumer: whether its pop call went through the
                    \* wait, and whether the queue was shut down when it returned
    file_sizes,     \* FuseContext::file_sizes, the metadata size map
    is_started,     \* FuseContext::is_started
    workers_,       \* S3WorkerPool::workers_: the number of threads spawned
    fret,           \* history: the last call made from outside (a bridge callback
                    \* or load_manifest), its arguments and what it returned
    kept_hot,       \* history: some insert_chunk call of a thread driving the cache
                    \* alone stored with zone PREFETCH into an entry that was HOT
    spc,            \* threads calling S3WorkerPool::shutdown: position in the call
    stop_flag,      \* Predictor::stop_flag_
    fpc,            \* the thread in FuseContext::stop: its position
    lprog, lheld    \* threads followed lock by lock: the lock steps left of the
                    \* call in progress, and the locks held with their mode

cachevars == <<max_size, cache, now, relaxed, promoted, script>>
queuevars == <<queue_, q_shutdown, tasks, promise>>
workervars == <<shutdown_flag, wpc, wtask, wcall>>
readvars == <<rpc, rarg, roff, rsize, rbuf, rchunk, rhandle, rdepth, rresult, rerr, rshort>>
predvars == <<last_accessed, in_flight, in_flight_futures, manifest_mode, manifest,
              current, to_prefetch, ppc, ptodo>>
cvvars == <<cv_due, pop_hist>>
fusevars == <<file_sizes, is_started, workers_, fret>>
lifevars == <<spc, stop_flag, fpc>>
lockvars == <<lprog, lheld>>
auxvars == <<kept_hot, lifevars, lockvars>>
vars == <<max_size, cache, now, relaxed, promoted, script, queue_, q_shutdown, tasks, promise,
          shutdown_flag, wpc, wtask, wcall,
          rpc, rarg, roff, rsize, rbuf, rchunk, rhandle, rdepth, rresult, rerr, rshort,
          last_accessed, in_flight, in_flight_futures, manifest_mode, manifest,
          current, to_prefetch, ppc, ptodo,
          ncalls, cv_due, pop_hist, file_sizes, is_started, workers_, fret,
          kept_hot, spc, stop_flag, fpc, lprog, lheld>>

----------------------------------------------------------------------------
(* types.hpp *)

HOT == "HOT"
PREFETCH == "PREFETCH"
Zones == {HOT, PREFETCH}

URGENT == 0
NORMAL == 1
BACKGROUND == 2
Priorities == {URGENT, NORMAL, BACKGROUND}

\* 4 MiB in the program; three bytes here, so that a tail chunk can be
\* shorter than a full chunk by more than one byte.
DEFAULT_CHUNK_SIZE == 3

\* Sentinel of evict_lru_hot; larger than every timestamp of the model.
UINT64_MAX == 1000000

\* size_t arithmetic is modulo 2^64 in the program; narrowed to 2^30 here
\* (the model checker's integers have 32 bits).
SIZE_MODULUS == 1073741824

EIO == 5

\* The largest int (stoi's range, and the operand at which number + 1 overflows)
INT_MAX == 2147483647

----------------------------------------------------------------------------
(* Bounds of the model *)

MaxTime == 1        \* the clock stops advancing here (later timestamps tie)
MaxCalls == 3       \* calls made by the threads that drive the cache alone
MaxReads == 2       \* read calls made by the bridge in one run
MaxTasks == 3       \* PrefetchTasks constructed in one run
MaxDepth == 3       \* nested read() frames the stack holds
MaxOff == 5         \* largest offset passed to read
MaxLen == 2         \* largest size passed to read
UnitCacheSize == 3  \* max_size of the cache exercised alone
MountCacheSize == 4 \* max_size (--cache-size) of the mounted system
MaxLruCalls == 8    \* calls made by the single thread of the eviction test
MaxStarts == 3      \* calls of S3WorkerPool::start in one run
Lookahead == 2      \* lookahead_ (--lookahead) of the predictor

Workers == {"w1", "w2"}
Stoppers == {"t1", "t2", "ctx"}   \* callers of S3WorkerPool::shutdown; ctx is the
                                  \* thread that runs FuseContext::stop
LockThreads == {"a", "b", "c"}    \* threads followed lock by lock
Readers == {"r1", "r2"}

NoKey == <<>>       \* std::string(), the empty key
None == [none |-> TRUE]      \* std::nullopt

Min(a, b) == IF a < b THEN a ELSE b

----------------------------------------------------------------------------
(* cache_manager.hpp / cache_manager.cpp *)

\* struct Chunk, as built by Chunk(std::vector<char> d)
Chunk(data, t) == [data |-> data, last_access_time |-> t]

\* Chunk::update_access_time
update_access_time(chunk, t) == [chunk EXCEPT !.last_access_time = t]

\* struct FileEntry, as built by FileEntry(key, zone): no chunks yet
FileEntry(zone) == [zone |-> zone, chunks |-> <<>>]

\* std::map<size_t, Chunk>::operator[] assignment: insert or overwrite
MapPut(m, k, v) == [x \in (DOMAIN m) \cup {k} |-> IF x = k THEN v ELSE m[x]]

\* unordered_map::erase
MapErase(m, k) == [x \in (DOMAIN m) \ {k} |-> m[x]]

RECURSIVE SumData(_, _)
SumData(chunks, offs) ==
    IF offs = {} THEN 0
    ELSE LET o == CHOOSE x \in offs : TRUE
         IN Len(chunks[o].data) + SumData(chunks, offs \ {o})

\* CacheManager::calculate_file_size
calculate_file_size(entry) == SumData(entry.chunks, DOMAIN entry.chunks)

\* CacheManager::CacheManager
EmptyCache == [files |-> <<>>, hot_lru |-> <<>>, prefetch_fifo |-> <<>>, current_size |-> 0]

\* A find + erase that erases nothing
EraseNothing(s, k) == s

\* std::find + vector::erase: removes the first occurrence of k, if any
RECURSIVE EraseFirst(_, _)
EraseFirst(s, k) ==
    IF s = <<>> THEN <<>>
    ELSE IF Head(s) = k THEN Tail(s)
    ELSE <<Head(s)>> \o EraseFirst(Tail(s), k)

\* An eviction that takes the newest entry of prefetch_fifo
evict_newest_prefetch(c) ==
    IF c.prefetch_fifo = <<>> THEN c
    ELSE LET key == c.prefetch_fifo[Len(c.prefetch_fifo)]
             c1 == [c EXCEPT !.prefetch_fifo = SubSeq(@, 1, Len(@) - 1)]
         IN IF key \in DOMAIN c.files
            THEN [c1 EXCEPT !.files = MapErase(c.files, key),
                            !.current_size = @ - calculate_file_size(c.files[key])]
            ELSE c1

\* CacheManager::evict_fifo_prefetch
evict_fifo_prefetch(c) ==
    IF c.prefetch_fifo = <<>> THEN c
    ELSE LET key == Head(c.prefetch_fifo)
             c1 == [c EXCEPT !.prefetch_fifo = Tail(c.prefetch_fifo)]
         IN IF key \in DOMAIN c.files
            THEN [c1 EXCEPT !.files = MapErase(c.files, key),
                            !.current_size = @ - calculate_file_size(c.files[key])]
            ELSE c1

\* The smallest last_access_time among the chunks of an entry
\* (the inner loop of evict_lru_hot visits every chunk of the entry)
OldestChunkTime(entry) ==
    LET times == {entry.chunks[o].last_access_time : o \in DOMAIN entry.chunks}
    IN IF times = {} THEN UINT64_MAX
       ELSE CHOOSE t \in times : \A u \in times : t <= u

\* A scan that takes a key whose chunk is as old as the oldest seen
RECURSIVE LruScanTakesEqual(_, _, _, _)
LruScanTakesEqual(files, keys, lru_key, oldest_time) ==
    IF keys = <<>> THEN lru_key
    ELSE LET key == Head(keys)
         IN IF key \notin DOMAIN files
            THEN LruScanTakesEqual(files, Tail(keys), lru_key, oldest_time)
            ELSE LET t == OldestChunkTime(files[key])
                 IN IF t <= oldest_time
                    THEN LruScanTakesEqual(files, Tail(keys), key, t)
                    ELSE LruScanTakesEqual(files, Tail(keys), lru_key, oldest_time)

\* The scan of evict_lru_hot: the loop over hot_lru_, carrying (lru_key, oldest_time).
\* A key is taken only when one of its chunks is strictly older than oldest_time.
RECURSIVE LruScan(_, _, _, _)
LruScan(files, keys, lru_key, oldest_time) ==
    IF keys = <<>> THEN lru_key
    ELSE LET key == Head(keys)
         IN IF key \notin DOMAIN files
            THEN LruScan(files, Tail(keys), lru_key, oldest_time)
            ELSE LET t == OldestChunkTime(files[key])
                 IN IF t < oldest_time
                    THEN LruScan(files, Tail(keys), key, t)
                    ELSE LruScan(files, Tail(keys), lru_key, oldest_time)

\* CacheManager::evict_lru_hot
evict_lru_hot(c) ==
    IF c.hot_lru = <<>> THEN c
    ELSE LET lru_key == LruScan(c.files, c.hot_lru, NoKey, UINT64_MAX)
         IN IF lru_key # NoKey /\ lru_key \in DOMAIN c.files
            THEN [c EXCEPT !.files = MapErase(c.files, lru_key),
                           !.current_size = @ - calculate_file_size(c.files[lru_key]),
                           !.hot_lru = EraseFirst(c.hot_lru, lru_key)]
            ELSE c

\* CacheManager::evict_if_needed: the loop, run under the unique cache lock.
\* An iteration that changes nothing while the loop condition still holds
\* repeats forever: the result is then marked hung.
RECURSIVE evict_if_needed(_, _, _)
evict_if_needed(c, required_space, max) ==
    IF c.current_size + required_space > max
    THEN IF c.prefetch_fifo # <<>>
         THEN evict_if_needed(evict_fifo_prefetch(c), required_space, max)
         ELSE IF c.hot_lru # <<>>
              THEN LET c1 == evict_lru_hot(c)
                   IN IF c1 = c THEN [cache |-> c, hung |-> TRUE]
                      ELSE evict_if_needed(c1, required_space, max)
              ELSE [cache |-> c, hung |-> FALSE]
    ELSE [cache |-> c, hung |-> FALSE]

\* An insert that keeps the chunk already stored at the offset (map::emplace)
insert_keeps_old(c, s3_key, offset, data, zone, t) ==
    LET fresh == s3_key \notin DOMAIN c.files
        entry == IF fresh THEN FileEntry(zone) ELSE c.files[s3_key]
        entry1 == IF offset \in DOMAIN entry.chunks THEN entry
                  ELSE [entry EXCEPT !.chunks = MapPut(entry.chunks, offset, Chunk(data, t))]
    IN [c EXCEPT !.files = MapPut(c.files, s3_key, entry1),
                 !.hot_lru = IF fresh /\ zone = HOT THEN Append(@, s3_key) ELSE @,
                 !.prefetch_fifo = IF fresh /\ zone # HOT THEN Append(@, s3_key) ELSE @,
                 !.current_size = @ + Len(data)]

\* An insert that gives an existing entry the zone of the call
insert_rezones(c, s3_key, offset, data, zone, t) ==
    LET fresh == s3_key \notin DOMAIN c.files
        entry == IF fresh THEN FileEntry(zone) ELSE [c.files[s3_key] EXCEPT !.zone = zone]
        entry1 == [entry EXCEPT !.chunks = MapPut(entry.chunks, offset, Chunk(data, t))]
    IN [c EXCEPT !.files = MapPut(c.files, s3_key, entry1),
                 !.hot_lru = IF fresh /\ zone = HOT THEN Append(@, s3_key) ELSE @,
                 !.prefetch_fifo = IF fresh /\ zone # HOT THEN Append(@, s3_key) ELSE @,
                 !.current_size = @ + Len(data)]

\* CacheManager::insert_chunk, the part after evict_if_needed (second lock section)
insert_store(c, s3_key, offset, data, zone, t) ==
    LET fresh == s3_key \notin DOMAIN c.files
        entry == IF fresh THEN FileEntry(zone) ELSE c.files[s3_key]
        entry1 == [entry EXCEPT !.chunks = MapPut(entry.chunks, offset, Chunk(data, t))]
    IN [c EXCEPT !.files = MapPut(c.files, s3_key, entry1),
                 !.hot_lru = IF fresh /\ zone = HOT THEN Append(@, s3_key) ELSE @,
                 !.prefetch_fifo = IF fresh /\ zone # HOT THEN Append(@, s3_key) ELSE @,
                 !.current_size = @ + Len(data)]

\* CacheManager::get_chunk
get_chunk(c, s3_key, offset) ==
    IF s3_key \notin DOMAIN c.files THEN None
    ELSE IF offset \notin DOMAIN c.files[s3_key].chunks THEN None
    ELSE c.files[s3_key].chunks[offset]

\* An access that promotes to the front of hot_lru
accessPromotesToFront(c, s3_key, offset, t) ==
    IF s3_key \notin DOMAIN c.files THEN c
    ELSE LET file == c.files[s3_key]
             file1 == IF offset \in DOMAIN file.chunks
                      THEN [file EXCEPT !.chunks[offset] = update_access_time(@, t)]
                      ELSE file
         IN IF file.zone = PREFETCH
            THEN [c EXCEPT !.files[s3_key] = [file1 EXCEPT !.zone = HOT],
                           !.prefetch_fifo = EraseFirst(@, s3_key),
                           !.hot_lru = <<s3_key>> \o @]
            ELSE [c EXCEPT !.files[s3_key] = file1]

\* An access that only updates the access time
accessKeepsZone(c, s3_key, offset, t) ==
    IF s3_key \notin DOMAIN c.files \/ offset \notin DOMAIN c.files[s3_key].chunks THEN c
    ELSE [c EXCEPT !.files[s3_key].chunks[offset] = update_access_time(@, t)]

\* CacheManager::access
access(c, s3_key, offset, t) ==
    IF s3_key \notin DOMAIN c.files THEN c
    ELSE LET file == c.files[s3_key]
             file1 == IF offset \in DOMAIN file.chunks
                      THEN [file EXCEPT !.chunks[offset] = update_access_time(@, t)]
                      ELSE file
         IN IF file.zone = PREFETCH
            THEN [c EXCEPT !.files[s3_key] = [file1 EXCEPT !.zone = HOT],
                           !.prefetch_fifo = EraseFirst(@, s3_key),
                           !.hot_lru = Append(@, s3_key)]
            ELSE [c EXCEPT !.files[s3_key] = file1]

\* CacheManager::contains
contains(c, s3_key) == s3_key \in DOMAIN c.files

\* Sum of the data sizes of all chunks in the cache
RECURSIVE SumFiles(_, _)
SumFiles(files, keys) ==
    IF keys = {} THEN 0
    ELSE LET k == CHOOSE x \in keys : TRUE
         IN calculate_file_size(files[k]) + SumFiles(files, keys \ {k})

CachedBytes(c) == SumFiles(c.files, DOMAIN c.files)

----------------------------------------------------------------------------
(* thread_safe_queue.hpp *)

\* An operator< that ranks the larger enum value higher
ItemLessAscending(a, b) == a.priority < b.priority

\* QueueItem::operator<
ItemLess(a, b) == a.priority > b.priority

\* 0-based access to the heap array
At(h, i) == h[i + 1]
Put(h, i, v) == [h EXCEPT ![i + 1] = v]

\* std::push_heap's sift-up: move the hole up while the parent is less than value
RECURSIVE SiftUp(_, _, _, _)
SiftUp(h, hole, top, value) ==
    LET parent == (hole - 1) \div 2
    IN IF hole > top /\ ItemLess(At(h, parent), value)
       THEN SiftUp(Put(h, hole, At(h, parent)), parent, top, value)
       ELSE Put(h, hole, value)

\* std::priority_queue::push: push_back, then push_heap
HeapPush(h, item) == SiftUp(Append(h, item), Len(h), 0, item)

\* std::pop_heap's sift-down: move the hole down along the larger child
RECURSIVE SiftDown(_, _, _)
SiftDown(h, hole, len) ==
    IF hole < (len - 1) \div 2
    THEN LET right == 2 * (hole + 1)
             child == IF ItemLess(At(h, right), At(h, right - 1)) THEN right - 1 ELSE right
         IN SiftDown(Put(h, hole, At(h, child)), child, len)
    ELSE IF len % 2 = 0 /\ hole = (len - 2) \div 2
         THEN [heap |-> Put(h, hole, At(h, 2 * (hole + 1) - 1)), hole |-> 2 * (hole + 1) - 1]
         ELSE [heap |-> h, hole |-> hole]

\* std::priority_queue::pop: pop_heap (the last element refills the hole left
\* by the top), then pop_back
HeapPop(h) ==
    IF Len(h) = 1 THEN <<>>
    ELSE LET value == h[Len(h)]
             len == Len(h) - 1
             rest == SubSeq(h, 1, len)
             down == SiftDown(rest, 0, len)
         IN SiftUp(down.heap, down.hole, 0, value)

\* std::priority_queue::top
HeapTop(h) == h[1]

\* A push that stores the item whether or not the queue is shut down
QueuePushAlways(q, shut, data, priority) ==
    HeapPush(q, [data |-> data, priority |-> priority])

\* ThreadSafeQueue::push, under the mutex
QueuePush(q, shut, data, priority) ==
    IF shut THEN q ELSE HeapPush(q, [data |-> data, priority |-> priority])

\* A pop that hands out the closed sentinel as soon as the queue is shut down
QueuePopClosedFirst(q, shut) ==
    IF shut THEN [item |-> None, queue |-> q]
    ELSE [item |-> HeapTop(q), queue |-> HeapPop(q)]

\* ThreadSafeQueue::pop once the wait is over: nullopt when shut down and
\* drained, otherwise the top item, removed
QueuePop(q, shut) ==
    IF shut /\ q = <<>> THEN [item |-> None, queue |-> q]
    ELSE [item |-> HeapTop(q), queue |-> HeapPop(q)]

----------------------------------------------------------------------------
(* The object store: immutable objects, read by ranged GetObject *)

KA == <<"s", "1", ".", "b">>
KB == <<"s", "2", ".", "b">>
KC == <<"s", "3", ".", "b">>
Keys == {KA, KB, KC}

\* KA is one full chunk and a one-byte tail; KB is exactly one chunk; KC does
\* not exist in the bucket.
Object(key) ==
    IF key = KA THEN <<11, 12, 13, 14>>
    ELSE IF key = KB THEN <<21, 22, 23>>
    ELSE <<>>

Exists(key) == key \in {KA, KB}

\* The outcomes of s3_client_->GetObject followed by stream.read(data, size):
\* an error (a missing key, a range that starts at or after the end of the
\* object, or a transient failure), or the bytes read.
S3Error == [ok |-> FALSE, body |-> <<>>]
\* A body buffer that is not resized to the bytes read: zero-filled to task.size
S3BodyUnresized(bytes) ==
    [ok |-> TRUE,
     body |-> bytes \o [i \in 1 .. (DEFAULT_CHUNK_SIZE - Len(bytes)) |-> 0]]

S3Body(bytes) == [ok |-> TRUE, body |-> bytes]

GetObject(key, offset, size) ==
    IF ~Exists(key) \/ offset >= Len(Object(key)) THEN {S3Error}
    ELSE {S3Error,
          S3Body(SubSeq(Object(key), offset + 1, Min(offset + size, Len(Object(key)))))}

----------------------------------------------------------------------------
(* The clock *)

\* steady_clock advances between two readings, or does not (the readings of
\* Chunk::get_current_time have microsecond resolution)
Tick ==
    /\ now < MaxTime
    /\ now' = now + 1
    /\ UNCHANGED <<max_size, cache, relaxed, promoted, script, queuevars, workervars, readvars, ncalls, predvars>>
    /\ UNCHANGED <<cvvars, fusevars, auxvars>>

----------------------------------------------------------------------------
(* s3_worker_pool.cpp: the workers *)

\* PrefetchTask::PrefetchTask
PrefetchTask(key, off, sz, prio) ==
    [s3_key |-> key, offset |-> off, size |-> sz, priority |-> prio]

\* S3WorkerPool::submit: the task is built with a fresh promise and pushed.
\* A push refused by a shut-down queue destroys the task and with it the
\* promise: the future then holds a broken_promise error.
Submit(key, off, sz, prio) ==
    /\ Len(tasks) < MaxTasks
    /\ tasks' = Append(tasks, PrefetchTask(key, off, sz, prio))
    /\ promise' = Append(promise, IF q_shutdown THEN "broken" ELSE "pending")
    /\ queue_' = QueuePush(queue_, q_shutdown, Len(tasks) + 1, prio)
    /\ UNCHANGED q_shutdown

\* S3WorkerPool::worker_loop, task_queue_.pop() by a worker that has passed
\* the loop test: blocks while the queue is empty and not shut down
WorkerPop(w) ==
    /\ wpc[w] = "pop"
    /\ queue_ # <<>> \/ q_shutdown
    /\ LET r == QueuePop(queue_, q_shutdown)
       IN /\ queue_' = r.queue
          /\ wtask' = [wtask EXCEPT ![w] = r.item]
          /\ wpc' = [wpc EXCEPT ![w] = IF r.item = None THEN "exited" ELSE "download"]
    /\ UNCHANGED <<cachevars, q_shutdown, tasks, promise, shutdown_flag, wcall,
                   readvars, ncalls, predvars>>
    /\ UNCHANGED <<cvvars, fusevars, auxvars>>

\* A zone choice that ignores the priority
ZoneAlwaysHot(priority) == HOT

\* worker_loop, the loop test a worker makes once its task is done
LoopTest(flag) == IF flag THEN "exited" ELSE "pop"

\* The zone download_chunk stores under
ZoneFor(priority) == IF priority = URGENT THEN HOT ELSE PREFETCH

\* S3WorkerPool::download_chunk up to the call of insert_chunk: the request,
\* the body read; on failure or an empty body the promise is set to false
\* (worker_loop) and the worker goes back to pop.
WorkerGetObject(w) ==
    /\ wpc[w] = "download"
    /\ LET h == wtask[w].data
           task == tasks[h]
       IN \E outcome \in GetObject(task.s3_key, task.offset, task.size) :
            IF ~outcome.ok \/ Len(outcome.body) = 0
            THEN /\ promise' = [promise EXCEPT ![h] = "false"]
                 /\ wpc' = [wpc EXCEPT ![w] = LoopTest(shutdown_flag)]
                 /\ wtask' = [wtask EXCEPT ![w] = None]
                 /\ UNCHANGED wcall
            ELSE /\ wcall' = [wcall EXCEPT ![w] =
                        [s3_key |-> task.s3_key, offset |-> task.offset,
                         data |-> outcome.body, zone |-> ZoneFor(task.priority),
                         relax |-> FALSE, evicted_hot |-> {}, evicted_prefetch |-> {}]]
                 /\ wpc' = [wpc EXCEPT ![w] = "evict"]
                 /\ UNCHANGED <<promise, wtask>>
    /\ UNCHANGED <<cachevars, queue_, q_shutdown, tasks, shutdown_flag,
                   readvars, ncalls, predvars>>
    /\ UNCHANGED <<cvvars, fusevars, auxvars>>

\* The keys of zone z that are in cache c and no longer in c1
EvictedOf(c, c1, z) ==
    {k \in DOMAIN c.files : c.files[k].zone = z /\ ~contains(c1, k)}

\* CacheManager::insert_chunk, first lock section: evict_if_needed(data.size()).
\* The call's record keeps, as history, what it evicted and whether it left
\* the cache empty for a chunk larger than max_size.
InsertEvict(w) ==
    /\ wpc[w] = "evict"
    /\ LET r == evict_if_needed(cache, Len(wcall[w].data), max_size)
           emptied == r.cache.hot_lru = <<>> /\ r.cache.prefetch_fifo = <<>>
       IN /\ cache' = r.cache
          /\ wpc' = [wpc EXCEPT ![w] = IF r.hung THEN "hung" ELSE "store"]
          /\ wcall' = [wcall EXCEPT
                ![w].relax = emptied /\ Len(wcall[w].data) > max_size,
                ![w].evicted_hot = EvictedOf(cache, r.cache, HOT),
                ![w].evicted_prefetch = EvictedOf(cache, r.cache, PREFETCH)]
    /\ UNCHANGED <<max_size, now, relaxed, promoted, script, queuevars, shutdown_flag, wtask,
                   readvars, ncalls, predvars>>
    /\ UNCHANGED <<cvvars, fusevars, auxvars>>

\* CacheManager::insert_chunk, second lock section: the entry is found or
\* created, the chunk stored, current_size_ increased. When the call was made
\* by download_chunk the worker then sets the promise to true (worker_loop).
InsertStore(w) ==
    /\ wpc[w] = "store"
    /\ LET a == wcall[w]
       IN /\ cache' = insert_store(cache, a.s3_key, a.offset, a.data, a.zone, now)
          /\ relaxed' = (relaxed \/ a.relax)
    /\ promise' = IF wtask[w] = None THEN promise
                  ELSE [promise EXCEPT ![wtask[w].data] = "true"]
    /\ wpc' = [wpc EXCEPT ![w] = IF wtask[w] = None THEN "pop" ELSE LoopTest(shutdown_flag)]
    /\ wcall' = [wcall EXCEPT ![w] = None]
    /\ wtask' = [wtask EXCEPT ![w] = None]
    /\ UNCHANGED <<max_size, now, promoted, script, queue_, q_shutdown, tasks, shutdown_flag,
                   readvars, ncalls, predvars>>
    /\ UNCHANGED <<cvvars, fusevars, lifevars, lockvars>>
    /\ kept_hot' = (kept_hot \/ (/\ wtask[w] = None
                                 /\ wcall[w].zone = PREFETCH
                                 /\ contains(cache, wcall[w].s3_key)
                                 /\ cache.files[wcall[w].s3_key].zone = HOT))

\* A client thread calls submit(s3_key, offset, DEFAULT_CHUNK_SIZE, priority)
ClientSubmit(s3_key, offset, priority) ==
    /\ Submit(s3_key, offset, DEFAULT_CHUNK_SIZE, priority)
    /\ UNCHANGED <<cachevars, workervars, readvars, ncalls, predvars>>
    /\ UNCHANGED <<cvvars, fusevars, auxvars>>

\* S3WorkerPool::shutdown, shutdown_flag_.exchange(true) by the first caller
PoolShutdownFlag ==
    /\ ~shutdown_flag
    /\ shutdown_flag' = TRUE
    /\ UNCHANGED <<cachevars, queuevars, wpc, wtask, wcall, readvars, ncalls, predvars>>
    /\ UNCHANGED <<cvvars, fusevars, auxvars>>

\* S3WorkerPool::shutdown, task_queue_.shutdown(); the joins that follow end
\* when every worker has left its loop
PoolShutdownQueue ==
    /\ shutdown_flag
    /\ ~q_shutdown
    /\ q_shutdown' = TRUE
    /\ UNCHANGED <<cachevars, queue_, tasks, promise, workervars, readvars, ncalls, predvars>>
    /\ UNCHANGED <<cvvars, fusevars, auxvars>>

\* shutdown() has returned: the flag is set, the queue shut down, the workers joined
PoolStopped ==
    shutdown_flag /\ q_shutdown /\ \A w \in Workers : wpc[w] = "exited"

\* The handles of the tasks in queue q are abandoned: their promises are
\* destroyed without a value
Abandon(pr, q) ==
    [h \in DOMAIN pr |->
        IF \E i \in 1 .. Len(q) : q[i].data = h THEN "broken" ELSE pr[h]]

\* S3WorkerPool::~S3WorkerPool after shutdown: task_queue_ is destroyed with
\* the tasks still in it
PoolDestroy ==
    /\ PoolStopped
    /\ queue_ # <<>>
    /\ promise' = Abandon(promise, queue_)
    /\ queue_' = <<>>
    /\ UNCHANGED <<cachevars, q_shutdown, tasks, workervars, readvars, ncalls, predvars>>
    /\ UNCHANGED <<cvvars, fusevars, auxvars>>

\* S3WorkerPool::shutdown called by thread t, shutdown_flag_.exchange(true):
\* the caller that finds the flag set returns at once, the one that sets it
\* goes on. The thread of FuseContext::stop makes the call when it gets there.
ShutdownExchange(t) ==
    /\ spc[t] = "idle"
    /\ t = "ctx" => fpc = "pool"
    /\ shutdown_flag' = TRUE
    /\ spc' = [spc EXCEPT ![t] = IF shutdown_flag THEN "returned" ELSE "queue"]
    /\ UNCHANGED <<cachevars, queuevars, wpc, wtask, wcall, readvars, ncalls, predvars>>
    /\ UNCHANGED <<cvvars, fusevars, kept_hot, stop_flag, fpc, lockvars>>

\* S3WorkerPool::shutdown, task_queue_.shutdown()
ShutdownQueue(t) ==
    /\ spc[t] = "queue"
    /\ q_shutdown' = TRUE
    /\ spc' = [spc EXCEPT ![t] = "join"]
    /\ UNCHANGED <<cachevars, queue_, tasks, promise, workervars, readvars, ncalls, predvars>>
    /\ UNCHANGED <<cvvars, fusevars, kept_hot, stop_flag, fpc, lockvars>>

\* S3WorkerPool::shutdown, the joins: they are through when every worker
\* has left worker_loop, and the call returns
ShutdownJoin(t) ==
    /\ spc[t] = "join"
    /\ \A w \in Workers : wpc[w] = "exited"
    /\ spc' = [spc EXCEPT ![t] = "returned"]
    /\ UNCHANGED <<cachevars, queuevars, workervars, readvars, ncalls, predvars>>
    /\ UNCHANGED <<cvvars, fusevars, kept_hot, stop_flag, fpc, lockvars>>

----------------------------------------------------------------------------
(* tests/test_cache_manager.cpp: threads that call the cache directly *)

CacheKeys == {KA, KB}
CacheOffsets == {0, DEFAULT_CHUNK_SIZE}
CacheData == {<<7>>, <<8, 8>>, <<9, 9, 9, 9>>}

\* A thread enters insert_chunk(s3_key, offset, data, zone)
CallInsert(w, s3_key, offset, data, zone) ==
    /\ wpc[w] = "pop"
    /\ ncalls < MaxCalls
    /\ ncalls' = ncalls + 1
    /\ wcall' = [wcall EXCEPT ![w] =
            [s3_key |-> s3_key, offset |-> offset, data |-> data, zone |-> zone,
             relax |-> FALSE, evicted_hot |-> {}, evicted_prefetch |-> {}]]
    /\ wpc' = [wpc EXCEPT ![w] = "evict"]
    /\ UNCHANGED <<cachevars, queuevars, shutdown_flag, wtask, readvars, predvars>>
    /\ UNCHANGED <<cvvars, fusevars, auxvars>>

\* A thread calls access(s3_key, offset)
CallAccess(s3_key, offset) ==
    /\ ncalls < MaxCalls
    /\ ncalls' = ncalls + 1
    /\ cache' = access(cache, s3_key, offset, now)
    /\ promoted' = IF contains(cache, s3_key) /\ cache.files[s3_key].zone = PREFETCH
                   THEN s3_key ELSE promoted
    /\ UNCHANGED <<max_size, now, relaxed, script, queuevars, workervars, readvars, predvars>>
    /\ UNCHANGED <<cvvars, fusevars, auxvars>>

\* test_lru_eviction: one thread, four files, one-unit chunks at offset 0
KD == <<"s", "4", ".", "b">>
LruKeys == <<KA, KB, KC, KD>>
LruThread == "w1"
LruData == <<7>>

\* The n-th call (from 0) of the eviction scenario: the files are inserted in
\* order, each one accessed right after its insert
ScriptCall(n) ==
    IF n \div 2 + 1 > Len(LruKeys) THEN [op |-> "none", key |-> NoKey]
    ELSE [op |-> IF n % 2 = 0 THEN "insert" ELSE "access", key |-> LruKeys[n \div 2 + 1]]

\* The thread enters insert_chunk(s3_key, 0, one unit, HOT)
LruInsert(s3_key) ==
    /\ wpc[LruThread] = "pop"
    /\ ncalls < MaxLruCalls
    /\ ncalls' = ncalls + 1
    /\ script' = (script /\ ScriptCall(ncalls) = [op |-> "insert", key |-> s3_key])
    /\ wcall' = [wcall EXCEPT ![LruThread] =
            [s3_key |-> s3_key, offset |-> 0, data |-> LruData, zone |-> HOT,
             relax |-> FALSE, evicted_hot |-> {}, evicted_prefetch |-> {}]]
    /\ wpc' = [wpc EXCEPT ![LruThread] = "evict"]
    /\ UNCHANGED <<max_size, cache, now, relaxed, promoted, queuevars, shutdown_flag,
                   wtask, readvars, predvars>>
    /\ UNCHANGED <<cvvars, fusevars, auxvars>>

\* The thread calls access(s3_key, 0)
LruAccess(s3_key) ==
    /\ wpc[LruThread] = "pop"
    /\ ncalls < MaxLruCalls
    /\ ncalls' = ncalls + 1
    /\ script' = (script /\ ScriptCall(ncalls) = [op |-> "access", key |-> s3_key])
    /\ cache' = access(cache, s3_key, 0, now)
    /\ UNCHANGED <<max_size, now, relaxed, promoted, queuevars, workervars,
                   readvars, predvars>>
    /\ UNCHANGED <<cvvars, fusevars, auxvars>>

----------------------------------------------------------------------------
(* tests/test_thread_safe_queue.cpp: producers and consumers of the queue *)

\* queue.push(data, priority), data being the number of the push. A push
\* that stored its item leaves the mutex owing one cv_.notify_one(); a push
\* to a queue that is shut down returns at once.
TestPush(priority) ==
    /\ Len(tasks) < MaxTasks
    /\ tasks' = Append(tasks, [priority |-> priority])
    /\ promise' = Append(promise, "pending")
    /\ queue_' = QueuePush(queue_, q_shutdown, Len(tasks) + 1, priority)
    /\ cv_due' = IF q_shutdown THEN cv_due ELSE [cv_due EXCEPT !.one = @ + 1]
    /\ UNCHANGED <<cachevars, q_shutdown, workervars, readvars, ncalls, predvars,
                   pop_hist, fusevars, auxvars>>

\* The consumers blocked in cv_.wait
Waiting == {w \in Workers : wpc[w] = "wait"}

\* cv_.notify_one(), after push has released the mutex: one of the blocked
\* consumers, if any, is woken and will test the predicate again
NotifyOne ==
    /\ cv_due.one > 0
    /\ cv_due' = [cv_due EXCEPT !.one = @ - 1]
    /\ IF Waiting = {} THEN UNCHANGED wpc
       ELSE \E w \in Waiting : wpc' = [wpc EXCEPT ![w] = "pop"]
    /\ UNCHANGED <<cachevars, queuevars, shutdown_flag, wtask, wcall, readvars, ncalls,
                   predvars, pop_hist, fusevars, auxvars>>

\* queue.pop() by a consumer thread, from the call (or from a wake-up) to the
\* next point at which it blocks or returns: under the mutex the predicate of
\* cv_.wait is tested; when it fails the consumer blocks, otherwise pop
\* returns and the consumer keeps the result in hand. A consumer that was
\* handed the closed sentinel ends.
TestPop(w) ==
    /\ wpc[w] \in {"pop", "hold"}
    /\ IF queue_ # <<>> \/ q_shutdown
       THEN LET r == QueuePop(queue_, q_shutdown)
            IN /\ queue_' = r.queue
               /\ wtask' = [wtask EXCEPT ![w] = r.item]
               /\ wpc' = [wpc EXCEPT ![w] = IF r.item = None THEN "exited" ELSE "hold"]
               /\ pop_hist' = [pop_hist EXCEPT ![w] =
                      [waited |-> (wpc[w] = "pop" /\ pop_hist[w].waited),
                       closed |-> q_shutdown]]
       ELSE /\ wpc' = [wpc EXCEPT ![w] = "wait"]
            /\ pop_hist' = [pop_hist EXCEPT ![w] = [waited |-> TRUE, closed |-> FALSE]]
            /\ UNCHANGED <<queue_, wtask>>
    /\ UNCHANGED <<cachevars, q_shutdown, tasks, promise, shutdown_flag, wcall,
                   readvars, ncalls, predvars, cv_due, fusevars, auxvars>>

\* A blocked consumer wakes without a notification (cv_.wait may return
\* spuriously; the predicate is then tested again)
SpuriousWake(w) ==
    /\ wpc[w] = "wait"
    /\ wpc' = [wpc EXCEPT ![w] = "pop"]
    /\ UNCHANGED <<cachevars, queuevars, shutdown_flag, wtask, wcall, readvars, ncalls,
                   predvars, cvvars, fusevars, auxvars>>

\* ThreadSafeQueue::shutdown, the locked part: the flag is set and the
\* caller leaves the mutex owing cv_.notify_all()
QueueShutdown ==
    /\ q_shutdown' = TRUE
    /\ cv_due' = [cv_due EXCEPT !.all = TRUE]
    /\ UNCHANGED <<cachevars, queue_, tasks, promise, workervars, readvars, ncalls, predvars,
                   pop_hist, fusevars, auxvars>>

\* A notify_all that wakes a single blocked consumer
NotifyAllWakesOne ==
    /\ cv_due.all
    /\ cv_due' = [cv_due EXCEPT !.all = FALSE]
    /\ IF Waiting = {} THEN UNCHANGED wpc
       ELSE \E w \in Waiting : wpc' = [wpc EXCEPT ![w] = "pop"]
    /\ UNCHANGED <<cachevars, queuevars, shutdown_flag, wtask, wcall, readvars, ncalls,
                   predvars, pop_hist, fusevars, auxvars>>

\* cv_.notify_all(), the end of shutdown: every blocked consumer is woken
NotifyAll ==
    /\ cv_due.all
    /\ cv_due' = [cv_due EXCEPT !.all = FALSE]
    /\ wpc' = [w \in Workers |-> IF wpc[w] = "wait" THEN "pop" ELSE wpc[w]]
    /\ UNCHANGED <<cachevars, queuevars, shutdown_flag, wtask, wcall, readvars, ncalls,
                   predvars, pop_hist, fusevars, auxvars>>

----------------------------------------------------------------------------
(* fuse_ops.cpp: read *)

ReadKeys == {KA, KB}
ReadOffsets == 0 .. MaxOff
ReadSizes == 1 .. MaxLen

\* What an out-of-bounds memcpy source may hold
Garbage == {0, 77}
\* The out-of-bounds memcpy faults instead
Fault == -1
\* History of a call that returned -EIO: the chunk it failed on, and whether
\* the failure was the handle's ("wait") or the second get_chunk's ("reprobe")
NoErr == [chunk |-> 0, at |-> "none"]

\* chunk_offset = (offset / DEFAULT_CHUNK_SIZE) * DEFAULT_CHUNK_SIZE
ChunkOffset(offset) == (offset \div DEFAULT_CHUNK_SIZE) * DEFAULT_CHUNK_SIZE

\* offset_in_chunk = offset % DEFAULT_CHUNK_SIZE
OffsetInChunk(offset) == offset % DEFAULT_CHUNK_SIZE

\* size_t available = chunk.data.size() - offset_in_chunk (unsigned)
Available(data, offset_in_chunk) ==
    (Len(data) - offset_in_chunk + SIZE_MODULUS) % SIZE_MODULUS

\* size_t to_copy = std::min(size, available)
ToCopy(size, data, offset_in_chunk) == Min(size, Available(data, offset_in_chunk))

\* The bytes memcpy(buf, chunk.data.data() + offset_in_chunk, to_copy) writes:
\* the chunk's bytes while the source is inside the vector, g beyond it.
Copied(data, offset_in_chunk, to_copy, g) ==
    [i \in 1 .. to_copy |->
        IF offset_in_chunk + i <= Len(data) THEN data[offset_in_chunk + i] ELSE g]

\* The FUSE bridge calls read(path, buf, size, offset): the outermost frame
ReadCall(r, key, offset, size) ==
    /\ rpc[r] \in {"idle", "done"}
    /\ ncalls < MaxReads
    /\ ncalls' = ncalls + 1
    /\ rarg' = [rarg EXCEPT ![r] = [key |-> key, offset |-> offset, size |-> size]]
    /\ roff' = [roff EXCEPT ![r] = offset]
    /\ rsize' = [rsize EXCEPT ![r] = size]
    /\ rbuf' = [rbuf EXCEPT ![r] = <<>>]
    /\ rdepth' = [rdepth EXCEPT ![r] = 1]
    /\ rresult' = [rresult EXCEPT ![r] = 0]
    /\ rerr' = [rerr EXCEPT ![r] = NoErr]
    /\ rshort' = [rshort EXCEPT ![r] = FALSE]
    /\ rpc' = [rpc EXCEPT ![r] = "probe"]
    /\ UNCHANGED <<cachevars, queuevars, workervars, rchunk, rhandle, predvars>>
    /\ UNCHANGED <<cvvars, fusevars, auxvars>>

\* A read whose first get_chunk updates the access time of the chunk it finds
ReadProbeTouches(r) ==
    /\ rpc[r] = "probe"
    /\ LET chunk_offset == ChunkOffset(roff[r])
           chunk_opt == get_chunk(cache, rarg[r].key, chunk_offset)
       IN IF chunk_opt # None
          THEN /\ rchunk' = [rchunk EXCEPT ![r] = chunk_opt]
               /\ rpc' = [rpc EXCEPT ![r] = "access"]
               /\ cache' = access(cache, rarg[r].key, chunk_offset, now)
               /\ UNCHANGED <<queuevars, rhandle>>
          ELSE /\ Submit(rarg[r].key, chunk_offset, DEFAULT_CHUNK_SIZE, URGENT)
               /\ rhandle' = [rhandle EXCEPT ![r] = Len(tasks) + 1]
               /\ rpc' = [rpc EXCEPT ![r] = "wait"]
               /\ UNCHANGED <<rchunk, cache>>
    /\ UNCHANGED <<max_size, now, relaxed, promoted, script, workervars, rarg, roff, rsize,
                   rbuf, rdepth, rresult, rerr, rshort, ncalls, predvars>>
    /\ UNCHANGED <<cvvars, fusevars, auxvars>>

\* read: get_chunk; on a miss the URGENT task is submitted
ReadProbe(r) ==
    /\ rpc[r] = "probe"
    /\ LET chunk_offset == ChunkOffset(roff[r])
           chunk_opt == get_chunk(cache, rarg[r].key, chunk_offset)
       IN IF chunk_opt # None
          THEN /\ rchunk' = [rchunk EXCEPT ![r] = chunk_opt]
               /\ rpc' = [rpc EXCEPT ![r] = "access"]
               /\ UNCHANGED <<queuevars, rhandle>>
          ELSE /\ Submit(rarg[r].key, chunk_offset, DEFAULT_CHUNK_SIZE, URGENT)
               /\ rhandle' = [rhandle EXCEPT ![r] = Len(tasks) + 1]
               /\ rpc' = [rpc EXCEPT ![r] = "wait"]
               /\ UNCHANGED rchunk
    /\ UNCHANGED <<cachevars, workervars, rarg, roff, rsize, rbuf, rdepth, rresult,
                   rerr, rshort, ncalls, predvars>>
    /\ UNCHANGED <<cvvars, fusevars, auxvars>>

\* The frames are popped when the call returns: their locals are gone
DropFrames(r) ==
    /\ roff' = [roff EXCEPT ![r] = 0]
    /\ rsize' = [rsize EXCEPT ![r] = 0]
    /\ rdepth' = [rdepth EXCEPT ![r] = 0]
    /\ rchunk' = [rchunk EXCEPT ![r] = None]
    /\ rhandle' = [rhandle EXCEPT ![r] = 0]

\* The whole call returns -EIO: every frame propagates the error
ReturnEIO(r) ==
    /\ rpc' = [rpc EXCEPT ![r] = "done"]
    /\ rresult' = [rresult EXCEPT ![r] = -EIO]
    /\ rerr' = [rerr EXCEPT ![r] = [chunk |-> ChunkOffset(roff[r]), at |-> rpc[r]]]
    /\ DropFrames(r)

\* read that takes any resolved handle for a successful download
ReadWaitAnyResult(r) ==
    /\ rpc[r] = "wait"
    /\ promise[rhandle[r]] # "pending"
    /\ rpc' = [rpc EXCEPT ![r] = "reprobe"]
    /\ UNCHANGED <<rresult, rerr, roff, rsize, rdepth, rchunk, rhandle>>
    /\ UNCHANGED <<cachevars, queuevars, workervars, rarg, rbuf, rshort, ncalls, predvars>>
    /\ UNCHANGED <<cvvars, fusevars, auxvars>>

\* read: future.get() returns; false, or the exception of a broken promise
\* (caught by the handler), ends the call with -EIO
ReadWait(r) ==
    /\ rpc[r] = "wait"
    /\ promise[rhandle[r]] # "pending"
    /\ IF promise[rhandle[r]] = "true"
       THEN /\ rpc' = [rpc EXCEPT ![r] = "reprobe"]
            /\ UNCHANGED <<rresult, rerr, roff, rsize, rdepth, rchunk, rhandle>>
       ELSE ReturnEIO(r)
    /\ UNCHANGED <<cachevars, queuevars, workervars, rarg, rbuf, rshort, ncalls, predvars>>
    /\ UNCHANGED <<cvvars, fusevars, auxvars>>

\* read: the second get_chunk, after a successful download
ReadReprobe(r) ==
    /\ rpc[r] = "reprobe"
    /\ LET chunk_opt == get_chunk(cache, rarg[r].key, ChunkOffset(roff[r]))
       IN IF chunk_opt # None
          THEN /\ rchunk' = [rchunk EXCEPT ![r] = chunk_opt]
               /\ rpc' = [rpc EXCEPT ![r] = "access"]
               /\ UNCHANGED <<rresult, rerr, roff, rsize, rdepth, rhandle>>
          ELSE ReturnEIO(r)
    /\ UNCHANGED <<cachevars, queuevars, workervars, rarg, rbuf, rshort, ncalls, predvars>>
    /\ UNCHANGED <<cvvars, fusevars, auxvars>>

\* read: cache->access, then the copy out of the chunk in hand and either the
\* return or the recursive call for the rest. A source range beyond the
\* vector's end is undefined behaviour: the bytes are arbitrary, or the
\* process faults. A frame the stack cannot hold ends in "overflow".
ReadAccess(r) ==
    /\ rpc[r] = "access"
    /\ cache' = access(cache, rarg[r].key, ChunkOffset(roff[r]), now)
    /\ LET data == rchunk[r].data
           offset_in_chunk == OffsetInChunk(roff[r])
           to_copy == ToCopy(rsize[r], data, offset_in_chunk)
           inside == offset_in_chunk + to_copy <= Len(data)
       IN \E g \in (IF inside THEN {0} ELSE Garbage \cup {Fault}) :
            IF g = Fault
            THEN /\ rpc' = [rpc EXCEPT ![r] = "fault"]
                 /\ UNCHANGED <<roff, rsize, rbuf, rdepth, rresult, rshort, rchunk, rhandle>>
            ELSE /\ rbuf' = [rbuf EXCEPT ![r] = @ \o Copied(data, offset_in_chunk, to_copy, g)]
                 /\ IF to_copy < rsize[r]
                    THEN /\ rshort' = [rshort EXCEPT ![r] = @ \/ Len(data) < DEFAULT_CHUNK_SIZE]
                         /\ IF rdepth[r] < MaxDepth
                            THEN /\ roff' = [roff EXCEPT ![r] = @ + to_copy]
                                 /\ rsize' = [rsize EXCEPT ![r] = @ - to_copy]
                                 /\ rdepth' = [rdepth EXCEPT ![r] = @ + 1]
                                 /\ rpc' = [rpc EXCEPT ![r] = "probe"]
                            ELSE /\ rpc' = [rpc EXCEPT ![r] = "overflow"]
                                 /\ UNCHANGED <<roff, rsize, rdepth>>
                         /\ UNCHANGED <<rresult, rchunk, rhandle>>
                    ELSE /\ rresult' = [rresult EXCEPT ![r] = Len(rbuf[r]) + to_copy]
                         /\ rpc' = [rpc EXCEPT ![r] = "done"]
                         /\ DropFrames(r)
                         /\ UNCHANGED rshort
    /\ UNCHANGED <<max_size, now, relaxed, promoted, script, queuevars, workervars, rarg, rerr, ncalls, predvars>>
    /\ UNCHANGED <<cvvars, fusevars, auxvars>>

----------------------------------------------------------------------------
(* s3_worker_pool.cpp: the predictor *)

Digits == <<"0", "1", "2", "3", "4", "5", "6", "7", "8", "9">>
IsDigit(c) == \E d \in 1 .. 10 : Digits[d] = c
DigitVal(c) == (CHOOSE d \in 1 .. 10 : Digits[d] = c) - 1

\* The digits of INT_MAX
IntMaxText == <<"2", "1", "4", "7", "4", "8", "3", "6", "4", "7">>

\* std::stoi on a string of digits; -1 stands for std::out_of_range, thrown
\* when the value does not fit an int: when, leading zeros aside, the string
\* is longer than the digits of INT_MAX, or as long and greater
Stoi(str) ==
    LET inked == {i \in 1 .. Len(str) : str[i] # "0"}
        sig == IF inked = {} THEN <<>>
               ELSE SubSeq(str, CHOOSE i \in inked : \A j \in inked : i <= j, Len(str))
        greater == /\ Len(sig) = Len(IntMaxText)
                   /\ \E i \in 1 .. Len(sig) :
                         /\ \A j \in 1 .. i - 1 : sig[j] = IntMaxText[j]
                         /\ DigitVal(sig[i]) > DigitVal(IntMaxText[i])
        RECURSIVE Value(_)
        Value(s) == IF s = <<>> THEN 0
                    ELSE 10 * Value(SubSeq(s, 1, Len(s) - 1)) + DigitVal(s[Len(s)])
    IN IF Len(sig) > Len(IntMaxText) \/ greater THEN -1 ELSE Value(sig)

\* operator<<(int) on a non-negative number
RECURSIVE ToDigits(_)
ToDigits(n) ==
    IF n < 10 THEN <<Digits[n + 1]>>
    ELSE ToDigits(n \div 10) \o <<Digits[(n % 10) + 1]>>

\* std::setw(padding) << std::setfill('0') << next_number
RECURSIVE PadZero(_, _)
PadZero(str, padding) ==
    IF Len(str) >= padding THEN str ELSE PadZero(<<"0">> \o str, padding)

\* The end of the run of digits that starts at position i
RECURSIVE DigitRunEnd(_, _)
DigitRunEnd(str, i) ==
    IF i < Len(str) /\ IsDigit(str[i + 1]) THEN DigitRunEnd(str, i + 1) ELSE i

\* std::regex_match against ^(.*?)(\d+)(\..*)$: the positions i at which the
\* number may start; the lazy prefix takes the least
MatchStarts(str) ==
    {i \in 1 .. Len(str) :
        /\ IsDigit(str[i])
        /\ DigitRunEnd(str, i) < Len(str)
        /\ str[DigitRunEnd(str, i) + 1] = "."}

\* operator<< of the int that INT_MAX + 1 wraps to: eleven characters, which
\* setw(10) does not pad
WrappedText == <<"-", "2", "1", "4", "7", "4", "8", "3", "6", "4", "8">>

\* Predictor::predict_next_sequential: NoKey stands for std::nullopt, returned
\* when the name does not match or stoi throws. At INT_MAX number + 1
\* overflows a signed int; the text given here is the one a wrapping build
\* prints (a trapping build ends the process, see PredictorWake).
predict_next_sequential(current_file) ==
    IF MatchStarts(current_file) = {} THEN NoKey
    ELSE LET i == CHOOSE m \in MatchStarts(current_file) :
                      \A n \in MatchStarts(current_file) : m <= n
             j == DigitRunEnd(current_file, i)
             prefix == SubSeq(current_file, 1, i - 1)
             number_str == SubSeq(current_file, i, j)
             suffix == SubSeq(current_file, j + 1, Len(current_file))
             number == Stoi(number_str)
         IN IF number < 0 THEN NoKey
            ELSE IF number = INT_MAX THEN prefix \o WrappedText \o suffix
            ELSE prefix \o PadZero(ToDigits(number + 1), Len(number_str)) \o suffix

\* Predictor::find_in_manifest: the index of the first occurrence, -1 if none
find_in_manifest(m, key) ==
    IF \E i \in 1 .. Len(m) : m[i] = key
    THEN (CHOOSE i \in 1 .. Len(m) : m[i] = key /\ \A j \in 1 .. i - 1 : m[j] # key) - 1
    ELSE -1

\* predict_and_prefetch, pattern mode: the chain of up to la successors
RECURSIVE PatternChain(_, _)
PatternChain(s3_key, la) ==
    IF la = 0 \/ predict_next_sequential(s3_key) = NoKey THEN <<>>
    ELSE <<predict_next_sequential(s3_key)>>
             \o PatternChain(predict_next_sequential(s3_key), la - 1)

\* A manifest mode that predicts by pattern for a key the manifest lacks
ManifestChainOrPattern(m, s3_key, la) ==
    IF find_in_manifest(m, s3_key) < 0 THEN PatternChain(s3_key, la)
    ELSE SubSeq(m, find_in_manifest(m, s3_key) + 2,
                Min(find_in_manifest(m, s3_key) + 1 + la, Len(m)))

\* predict_and_prefetch, manifest mode: the la entries after the accessed one
ManifestChain(m, s3_key, la) ==
    LET idx == find_in_manifest(m, s3_key)
    IN IF idx < 0 THEN <<>>
       ELSE SubSeq(m, idx + 2, Min(idx + 1 + la, Len(m)))

\* predict_and_prefetch: the list to_prefetch
ToPrefetch(mode, m, s3_key, la) ==
    IF mode THEN ManifestChain(m, s3_key, la) ELSE PatternChain(s3_key, la)

\* A future the predictor holds is ready: wait_for(0) == ready, which a
\* broken promise is too
FutureReady(pr, h) == pr[h] # "pending"

RECURSIVE KeepPending(_, _)
KeepPending(futures, pr) ==
    IF futures = <<>> THEN <<>>
    ELSE IF FutureReady(pr, Head(futures).handle)
         THEN KeepPending(Tail(futures), pr)
         ELSE <<Head(futures)>> \o KeepPending(Tail(futures), pr)

\* A sweep that forgets only the keys whose download succeeded
CompletedOkKeys(futures, pr) ==
    {futures[i].key : i \in {j \in 1 .. Len(futures) : pr[futures[j].handle] = "true"}}

\* A sweep that forgets every tracked key, ready or not
CompletedKeysAll(futures, pr) ==
    {futures[i].key : i \in 1 .. Len(futures)}

\* Predictor::cleanup_completed_downloads: the keys whose future is ready
CompletedKeys(futures, pr) ==
    {futures[i].key : i \in {j \in 1 .. Len(futures) : FutureReady(pr, futures[j].handle)}}

\* The record of a call made from outside: the operation, its path (or the
\* manifest file), the open flags, the value returned, and for getattr the
\* mode and size, for readdir the names handed to the filler
Call(op, path, flags, ret, mode, size, names) ==
    [op |-> op, path |-> path, flags |-> flags, ret |-> ret,
     mode |-> mode, size |-> size, names |-> names]

NoCall == Call("none", <<>>, 0, 0, 0, 0, {})

\* The names the pattern predictor is tried on
PredictNames ==
    {KA, KB,
     <<"s", "0", "4", "2", ".", "b">>,
     <<"0", "0", "0", "9", "9", ".", "b">>,
     <<"c", "9", ".", "b">>,
     <<"s", "9", "9", "9", ".", "b">>,
     <<"r", "_", "f", ".", "b">>,
     <<"s", "4", "2">>,
     <<"a", "1", "b", "2", ".", "c">>,
     <<"2", "1", "4", "7", "4", "8", "3", "6", "4", "7", ".", "b">>,
     <<"2", "1", "4", "7", "4", "8", "3", "6", "4", "8", ".", "b">>}

\* Manifest files, as sequences of lines: one with entries among comments,
\* blank lines and padded lines, one with comments and blanks only, one with
\* no line at all, and a path that cannot be opened
ManifestFiles ==
    {[opens |-> TRUE,
      lines |-> << <<"#", "h">>, KB, <<" ">> \o KA \o <<" ", "\t">>, <<>>,
                   <<" ", "#", "x">>, KD >>],
     [opens |-> TRUE, lines |-> << <<"#", "h">>, <<>>, <<" ", " ">>, <<"\t", "#">> >>],
     [opens |-> TRUE, lines |-> <<>>],
     [opens |-> FALSE, lines |-> <<>>]}

\* Predictor::load_manifest, the loop over the lines: each line is trimmed
\* of leading and trailing blanks, and kept unless empty or a comment
RECURSIVE ManifestLines(_)
ManifestLines(lines) ==
    IF lines = <<>> THEN <<>>
    ELSE LET line == Head(lines)
             inked == {i \in 1 .. Len(line) : line[i] \notin {" ", "\t", "\r", "\n"}}
             first == CHOOSE i \in inked : \A j \in inked : i <= j
             last == CHOOSE i \in inked : \A j \in inked : i >= j
             trimmed == IF inked = {} THEN <<>> ELSE SubSeq(line, first, last)
         IN (IF trimmed # <<>> /\ trimmed[1] # "#" THEN <<trimmed>> ELSE <<>>)
                \o ManifestLines(Tail(lines))

\* Predictor::load_manifest, called while the FuseContext is built (before
\* any file is accessed): a file that cannot be opened changes nothing
load_manifest(file) ==
    /\ last_accessed = NoKey
    /\ IF ~file.opens
       THEN /\ UNCHANGED <<manifest, manifest_mode>>
            /\ fret' = Call("load_manifest", file.lines, 0, 0, 0, 0, {})
       ELSE /\ manifest' = ManifestLines(file.lines)
            /\ manifest_mode' = (ManifestLines(file.lines) # <<>>)
            /\ fret' = Call("load_manifest", file.lines, 0, 1, 0, 0, {})
    /\ UNCHANGED <<cachevars, queuevars, workervars, readvars, ncalls,
                   last_accessed, in_flight, in_flight_futures,
                   current, to_prefetch, ppc, ptodo>>
    /\ UNCHANGED <<cvvars, auxvars, file_sizes, is_started, workers_>>

\* Predictor::on_file_accessed, called by open
on_file_accessed(s3_key) ==
    /\ ppc # "crashed"
    /\ last_accessed' = s3_key
    /\ UNCHANGED <<cachevars, queuevars, workervars, readvars, ncalls,
                   in_flight, in_flight_futures, manifest_mode, manifest,
                   current, to_prefetch, ppc, ptodo>>
    /\ UNCHANGED <<cvvars, fusevars, auxvars>>

\* predict_and_prefetch meets INT_MAX + 1 while it builds the pattern chain
RECURSIVE HitsIntMax(_, _)
HitsIntMax(key, la) ==
    IF la = 0 \/ MatchStarts(key) = {} THEN FALSE
    ELSE LET i == CHOOSE m \in MatchStarts(key) : \A n \in MatchStarts(key) : m <= n
         IN IF Stoi(SubSeq(key, i, DigitRunEnd(key, i))) = INT_MAX THEN TRUE
            ELSE IF predict_next_sequential(key) = NoKey THEN FALSE
            ELSE HitsIntMax(predict_next_sequential(key), la - 1)

\* predictor_loop, the loop test the predictor thread makes once a turn is done
PredictorLoopTest(flag) == IF flag THEN "exited" ELSE "sleep"

\* Predictor::predictor_loop, one turn after the sleep: the completed
\* downloads are swept, last_accessed_ is read, and predict_and_prefetch
\* builds its list (nothing when no file was accessed yet). A build that
\* traps on signed overflow ends the process instead when the chain meets
\* INT_MAX + 1.
PredictorWake ==
    /\ ppc = "sleep"
    /\ \/ /\ in_flight' = in_flight \ CompletedKeys(in_flight_futures, promise)
          /\ in_flight_futures' = KeepPending(in_flight_futures, promise)
          /\ current' = IF last_accessed = NoKey THEN current ELSE last_accessed
          /\ to_prefetch' = IF last_accessed = NoKey THEN to_prefetch
                            ELSE ToPrefetch(manifest_mode, manifest, last_accessed, Lookahead)
          /\ ptodo' = IF last_accessed = NoKey THEN <<>> ELSE to_prefetch'
          /\ ppc' = IF ptodo' = <<>> THEN PredictorLoopTest(stop_flag) ELSE "issue"
       \/ /\ last_accessed # NoKey /\ ~manifest_mode
          /\ HitsIntMax(last_accessed, Lookahead)
          /\ ppc' = "crashed"
          /\ UNCHANGED <<in_flight, in_flight_futures, current, to_prefetch, ptodo>>
    /\ UNCHANGED <<cachevars, queuevars, workervars, readvars, ncalls,
                   last_accessed, manifest_mode, manifest>>
    /\ UNCHANGED <<cvvars, fusevars, auxvars>>

\* predict_and_prefetch without the in_flight_ test
PredictorIssueUntracked ==
    /\ ppc = "issue"
    /\ LET key == Head(ptodo)
       IN IF contains(cache, key)
          THEN UNCHANGED <<queuevars, in_flight, in_flight_futures>>
          ELSE /\ Submit(key, 0, DEFAULT_CHUNK_SIZE, NORMAL)
               /\ in_flight' = in_flight \cup {key}
               /\ in_flight_futures' =
                      Append(in_flight_futures, [key |-> key, handle |-> Len(tasks) + 1])
    /\ ptodo' = Tail(ptodo)
    /\ ppc' = IF Tail(ptodo) = <<>> THEN PredictorLoopTest(stop_flag) ELSE "issue"
    /\ UNCHANGED <<cachevars, workervars, readvars, ncalls,
                   last_accessed, manifest_mode, manifest, current, to_prefetch>>
    /\ UNCHANGED <<cvvars, fusevars, auxvars>>

\* predict_and_prefetch, one turn of the loop over to_prefetch: a key already
\* cached or already in flight is passed over, any other is recorded in
\* in_flight_, submitted at NORMAL for its first chunk, and its future kept
PredictorIssue ==
    /\ ppc = "issue"
    /\ LET key == Head(ptodo)
       IN IF contains(cache, key) \/ key \in in_flight
          THEN UNCHANGED <<queuevars, in_flight, in_flight_futures>>
          ELSE /\ Submit(key, 0, DEFAULT_CHUNK_SIZE, NORMAL)
               /\ in_flight' = in_flight \cup {key}
               /\ in_flight_futures' =
                      Append(in_flight_futures, [key |-> key, handle |-> Len(tasks) + 1])
    /\ ptodo' = Tail(ptodo)
    /\ ppc' = IF Tail(ptodo) = <<>> THEN PredictorLoopTest(stop_flag) ELSE "issue"
    /\ UNCHANGED <<cachevars, workervars, readvars, ncalls,
                   last_accessed, manifest_mode, manifest, current, to_prefetch>>
    /\ UNCHANGED <<cvvars, fusevars, auxvars>>

----------------------------------------------------------------------------
(* fuse_ops.cpp: the context, open, getattr, readdir *)

EACCES == 13
ENOENT == 2
O_ACCMODE == 3
O_RDONLY == 0
S_IFDIR == 16384
S_IFREG == 32768

\* 1024 * 1024 * 1024, the size open records for a file it has not seen
PlaceholderSize == 1073741824

\* The paths the kernel passes: the root and one file per key read
Paths == {<<"/">>} \cup {<<"/">> \o k : k \in ReadKeys}

\* fi->flags of open: O_RDONLY, O_WRONLY, O_RDWR, the unused access mode 3,
\* and O_RDONLY, O_RDWR with O_LARGEFILE (0100000) set
OpenFlags == {0, 1, 2, 3, 32768, 32770}

\* A path that drops nothing
KeepSlash(path) == path

\* path_to_s3_key: the path without its leading slash
path_to_s3_key(path) ==
    IF path # <<>> /\ path[1] = "/" THEN Tail(path) ELSE path

\* An access mode read from the write bit alone
WriteBit(flags) == flags % 2

\* fi->flags & O_ACCMODE, for flags that are not negative
AccMode(flags) == flags % (O_ACCMODE + 1)

\* fuse_ops::open: anything but O_RDONLY is refused; otherwise the predictor
\* is told and the key enters file_sizes with the placeholder unless present
Open(path, flags) ==
    LET s3_key == path_to_s3_key(path)
    IN /\ ppc # "crashed"
       /\ IF AccMode(flags) # O_RDONLY
          THEN /\ fret' = Call("open", path, flags, -EACCES, 0, 0, {})
               /\ UNCHANGED <<last_accessed, file_sizes>>
          ELSE /\ last_accessed' = s3_key
               /\ file_sizes' =
                      IF s3_key \in DOMAIN file_sizes THEN file_sizes
                      ELSE [k \in DOMAIN file_sizes \cup {s3_key} |->
                               IF k = s3_key THEN PlaceholderSize ELSE file_sizes[k]]
               /\ fret' = Call("open", path, flags, 0, 0, 0, {})
       /\ UNCHANGED <<cachevars, queuevars, workervars, readvars, ncalls,
                      in_flight, in_flight_futures, manifest_mode, manifest,
                      current, to_prefetch, ppc, ptodo>>
       /\ UNCHANGED <<cvvars, auxvars, is_started, workers_>>

\* fuse_ops::getattr: the root is a directory; any other path is a regular
\* read-only file of the recorded size if its key is in file_sizes
Getattr(path) ==
    LET s3_key == path_to_s3_key(path)
    IN /\ fret' = IF path = <<"/">>
                  THEN Call("getattr", path, 0, 0, S_IFDIR + (7 * 64 + 5 * 8 + 5), 0, {})
                  ELSE IF s3_key \in DOMAIN file_sizes
                  THEN Call("getattr", path, 0, 0, S_IFREG + (4 * 64 + 4 * 8 + 4),
                            file_sizes[s3_key], {})
                  ELSE Call("getattr", path, 0, -ENOENT, 0, 0, {})
       /\ UNCHANGED <<cachevars, queuevars, workervars, readvars, predvars, ncalls>>
       /\ UNCHANGED <<cvvars, auxvars, file_sizes, is_started, workers_>>

\* fuse_ops::readdir: only the root is listed, with ".", ".." and every key
\* of file_sizes handed to the filler
Readdir(path) ==
    /\ fret' = IF path # <<"/">>
               THEN Call("readdir", path, 0, -ENOENT, 0, 0, {})
               ELSE Call("readdir", path, 0, 0, 0, 0,
                         {<<".">>, <<".", ".">>} \cup DOMAIN file_sizes)
    /\ UNCHANGED <<cachevars, queuevars, workervars, readvars, predvars, ncalls>>
    /\ UNCHANGED <<cvvars, auxvars, file_sizes, is_started, workers_>>

\* num_workers_ of the pool
num_workers == Cardinality(Workers)

\* S3WorkerPool::start: num_workers_ threads are added to workers_
PoolStart ==
    /\ workers_ + num_workers <= MaxStarts * num_workers
    /\ workers_' = workers_ + num_workers
    /\ UNCHANGED <<cachevars, queuevars, workervars, readvars, predvars, ncalls>>
    /\ UNCHANGED <<cvvars, auxvars, file_sizes, is_started, fret>>

\* FuseContext::start: the first call since the last stop starts the pool
\* (and the predictor); any other call returns at once
FuseStart ==
    /\ ~is_started
    /\ is_started' = TRUE
    /\ workers_ + num_workers <= MaxStarts * num_workers
    /\ workers_' = workers_ + num_workers
    /\ UNCHANGED <<cachevars, queuevars, workervars, readvars, predvars, ncalls>>
    /\ UNCHANGED <<cvvars, auxvars, file_sizes, fret>>

\* FuseContext::start on a started context
FuseStartAgain ==
    /\ is_started
    /\ fret' = Call("start", <<>>, 0, 0, 0, 0, {})
    /\ UNCHANGED <<cachevars, queuevars, workervars, readvars, predvars, ncalls>>
    /\ UNCHANGED <<cvvars, auxvars, file_sizes, is_started, workers_>>

\* FuseContext::stop on a started context: S3WorkerPool::shutdown, the first
\* time, closes the queue and joins every thread of workers_
FuseStop ==
    /\ is_started
    /\ is_started' = FALSE
    /\ IF shutdown_flag
       THEN UNCHANGED <<shutdown_flag, q_shutdown, workers_>>
       ELSE shutdown_flag' = TRUE /\ q_shutdown' = TRUE /\ workers_' = 0
    /\ UNCHANGED <<cachevars, queue_, tasks, promise, wpc, wtask, wcall,
                   readvars, predvars, ncalls>>
    /\ UNCHANGED <<cvvars, auxvars, file_sizes, fret>>

\* Predictor::stop reports that nobody joined
NeverJoined(pos) == TRUE

\* Predictor::stop, predictor_thread_.join(): through once predictor_loop
\* has returned
PredictorJoined(pos) == pos = "exited"

\* FuseContext::stop (called by destroy after it has printed the
\* statistics, and by the destructor), the compare-exchange on is_started:
\* on a started context the caller goes on to stop the predictor
StopBegin ==
    /\ fpc = "idle"
    /\ is_started
    /\ is_started' = FALSE
    /\ fpc' = "predictor"
    /\ UNCHANGED <<cachevars, queuevars, workervars, readvars, predvars, ncalls>>
    /\ UNCHANGED <<cvvars, file_sizes, workers_, fret, kept_hot, spc, stop_flag, lockvars>>

\* FuseContext::stop on a context that is not started: the compare-exchange
\* fails and the call returns
StopNotStarted ==
    /\ fpc = "idle"
    /\ ~is_started
    /\ fret' = Call("stop", <<>>, 0, 0, 0, 0, {})
    /\ UNCHANGED <<cachevars, queuevars, workervars, readvars, predvars, ncalls>>
    /\ UNCHANGED <<cvvars, file_sizes, is_started, workers_, auxvars>>

\* Predictor::stop, stop_flag_.exchange(true): a caller that finds the flag
\* set returns at once, the one that sets it goes on to the join
StopPredictor ==
    /\ fpc = "predictor"
    /\ stop_flag' = TRUE
    /\ fpc' = IF stop_flag THEN "pool" ELSE "join"
    /\ UNCHANGED <<cachevars, queuevars, workervars, readvars, predvars, ncalls>>
    /\ UNCHANGED <<cvvars, fusevars, kept_hot, spc, lockvars>>

\* Predictor::stop, the join, and its return to FuseContext::stop
StopPredictorJoin ==
    /\ fpc = "join"
    /\ PredictorJoined(ppc)
    /\ fpc' = "pool"
    /\ UNCHANGED <<cachevars, queuevars, workervars, readvars, predvars, ncalls>>
    /\ UNCHANGED <<cvvars, fusevars, kept_hot, spc, stop_flag, lockvars>>

\* FuseContext::stop returns once worker_pool->shutdown() has returned
StopReturn ==
    /\ fpc = "pool"
    /\ spc["ctx"] = "returned"
    /\ fpc' = "idle"
    /\ spc' = [spc EXCEPT !["ctx"] = "idle"]
    /\ fret' = Call("stop", <<>>, 0, 0, 0, 0, {})
    /\ UNCHANGED <<cachevars, queuevars, workervars, readvars, predvars, ncalls>>
    /\ UNCHANGED <<cvvars, file_sizes, is_started, workers_, kept_hot, stop_flag, lockvars>>

----------------------------------------------------------------------------
(* The locks: cache_mutex_, FileEntry::mutex, in_flight_mutex_, the queue's mutex_ *)

LockEntries == {"file1", "file2"}      \* FileEntry::mutex of two cached files
Acquire(l, m) == [op |-> "lock", lock |-> l, mode |-> m]
Release(l, m) == [op |-> "unlock", lock |-> l, mode |-> m]

\* evict_lru_hot: a shared lock on each entry of hot_lru_ in turn, inside the
\* unique cache lock of evict_if_needed
RECURSIVE ScanLocks(_)
ScanLocks(scan) ==
    IF scan = <<>> THEN <<>>
    ELSE <<Acquire(Head(scan), "shared"), Release(Head(scan), "shared")>>
            \o ScanLocks(Tail(scan))

\* CacheManager::evict_if_needed with the entries its evict_lru_hot calls scan
evict_if_needed_locks(scan) ==
    <<Acquire("cache_mutex_", "unique")>> \o ScanLocks(scan)
        \o <<Release("cache_mutex_", "unique")>>

\* CacheManager::insert_chunk into entry f
insert_chunk_locks(f, scan) ==
    evict_if_needed_locks(scan)
        \o <<Acquire("cache_mutex_", "unique"), Acquire(f, "unique"),
             Release(f, "unique"), Release("cache_mutex_", "unique")>>

\* CacheManager::get_chunk of a key that has the entry f
get_chunk_locks(f) ==
    <<Acquire("cache_mutex_", "shared"), Acquire(f, "shared"),
      Release(f, "shared"), Release("cache_mutex_", "shared")>>

\* An access that takes the entry's lock first and the cache lock inside it
access_entry_first(f) ==
    <<Acquire(f, "unique"), Acquire("cache_mutex_", "unique"),
      Release("cache_mutex_", "unique"), Release(f, "unique")>>

\* CacheManager::access of a key that has the entry f
access_locks(f) ==
    <<Acquire("cache_mutex_", "unique"), Acquire(f, "unique"),
      Release(f, "unique"), Release("cache_mutex_", "unique")>>

\* CacheManager::contains, get_zone, and get_chunk of a key without entry
contains_locks ==
    <<Acquire("cache_mutex_", "shared"), Release("cache_mutex_", "shared")>>

\* CacheManager::access of a key without entry
access_missing_locks ==
    <<Acquire("cache_mutex_", "unique"), Release("cache_mutex_", "unique")>>

\* CacheManager::get_stats with both entries in files_
get_stats_locks ==
    <<Acquire("cache_mutex_", "shared"),
      Acquire("file1", "shared"), Release("file1", "shared"),
      Acquire("file2", "shared"), Release("file2", "shared"),
      Release("cache_mutex_", "shared")>>

\* ThreadSafeQueue::push and pop (the wait of pop gives the mutex up)
queue_locks == <<Acquire("mutex_", "unique"), Release("mutex_", "unique")>>

\* Predictor::cleanup_completed_downloads
cleanup_locks ==
    <<Acquire("in_flight_mutex_", "unique"), Release("in_flight_mutex_", "unique")>>

\* Predictor::predict_and_prefetch, one key of to_prefetch that is submitted:
\* contains, the in_flight_ test, submit, the emplace_back
predict_and_prefetch_locks ==
    contains_locks \o cleanup_locks \o queue_locks \o cleanup_locks

\* The calls a thread can make
LockPrograms ==
    {insert_chunk_locks(f, scan) : f \in LockEntries, scan \in {<<>>, <<"file1", "file2">>}}
        \cup {get_chunk_locks(f) : f \in LockEntries}
        \cup {access_locks(f) : f \in LockEntries}
        \cup {contains_locks, access_missing_locks, get_stats_locks, queue_locks,
              cleanup_locks, predict_and_prefetch_locks}

\* std::shared_mutex / std::mutex: a lock can be taken unless another holder
\* excludes it (any holder for unique, a unique holder for shared); a thread
\* that already holds the lock never gets it again
Grantable(t, st) ==
    \A u \in LockThreads : \A h \in lheld[u] :
        h.lock = st.lock => (u # t /\ h.mode = "shared" /\ st.mode = "shared")

\* Thread t can take the next lock step of its call
CanStep(t) ==
    /\ lprog[t] # <<>>
    /\ Head(lprog[t]).op = "lock" => Grantable(t, Head(lprog[t]))

\* Thread t begins a call
LockCall(t, prog) ==
    /\ lprog[t] = <<>>
    /\ lprog' = [lprog EXCEPT ![t] = prog]
    /\ UNCHANGED <<cachevars, queuevars, workervars, readvars, predvars, ncalls>>
    /\ UNCHANGED <<cvvars, fusevars, kept_hot, lifevars, lheld>>

\* Thread t takes or gives up the next lock of its call
LockStep(t) ==
    /\ CanStep(t)
    /\ LET st == Head(lprog[t])
           h == [lock |-> st.lock, mode |-> st.mode]
       IN lheld' = [lheld EXCEPT ![t] = IF st.op = "lock" THEN @ \cup {h} ELSE @ \ {h}]
    /\ lprog' = [lprog EXCEPT ![t] = Tail(@)]
    /\ UNCHANGED <<cachevars, queuevars, workervars, readvars, predvars, ncalls>>
    /\ UNCHANGED <<cvvars, fusevars, kept_hot, lifevars>>

----------------------------------------------------------------------------
(* Specifications *)

InitCommon ==
    /\ cache = EmptyCache
    /\ now = 0
    /\ relaxed = FALSE
    /\ promoted = NoKey
    /\ script = TRUE
    /\ queue_ = <<>>
    /\ q_shutdown = FALSE
    /\ tasks = <<>>
    /\ promise = <<>>
    /\ shutdown_flag = FALSE
    /\ wpc = [w \in Workers |-> "pop"]
    /\ wtask = [w \in Workers |-> None]
    /\ wcall = [w \in Workers |-> None]
    /\ rpc = [r \in Readers |-> "idle"]
    /\ rarg = [r \in Readers |-> None]
    /\ roff = [r \in Readers |-> 0]
    /\ rsize = [r \in Readers |-> 0]
    /\ rbuf = [r \in Readers |-> <<>>]
    /\ rchunk = [r \in Readers |-> None]
    /\ rhandle = [r \in Readers |-> 0]
    /\ rdepth = [r \in Readers |-> 0]
    /\ rresult = [r \in Readers |-> 0]
    /\ rerr = [r \in Readers |-> NoErr]
    /\ rshort = [r \in Readers |-> FALSE]
    /\ last_accessed = NoKey
    /\ in_flight = {}
    /\ in_flight_futures = <<>>
    /\ manifest_mode = FALSE
    /\ manifest = <<>>
    /\ current = NoKey
    /\ to_prefetch = <<>>
    /\ ppc = "sleep"
    /\ ptodo = <<>>
    /\ ncalls = 0
    /\ cv_due = [one |-> 0, all |-> FALSE]
    /\ pop_hist = [w \in Workers |-> [waited |-> FALSE, closed |-> FALSE]]
    /\ file_sizes = <<>>
    /\ is_started = FALSE
    /\ workers_ = 0
    /\ fret = NoCall
    /\ kept_hot = FALSE
    /\ spc = [t \in Stoppers |-> "idle"]
    /\ stop_flag = FALSE
    /\ fpc = "idle"
    /\ lprog = [t \in LockThreads |-> <<>>]
    /\ lheld = [t \in LockThreads |-> {}]

\* The cache alone, driven by threads that call it directly
InitCache == InitCommon /\ max_size = UnitCacheSize

NextCache ==
    \/ \E w \in Workers, k \in CacheKeys, o \in CacheOffsets, d \in CacheData, z \in Zones :
            CallInsert(w, k, o, d, z)
    \/ \E w \in Workers : InsertEvict(w)
    \/ \E w \in Workers : InsertStore(w)
    \/ \E k \in CacheKeys, o \in CacheOffsets : CallAccess(k, o)
    \/ Tick

SpecCache == InitCache /\ [][NextCache]_vars

\* The cache driven through its public calls with the empty key among the
\* keys (the key of the path "/")
EvictKeys == {NoKey, KA}

NextEvict ==
    \/ \E w \in Workers, k \in EvictKeys, d \in CacheData, z \in Zones :
            CallInsert(w, k, 0, d, z)
    \/ \E w \in Workers : InsertEvict(w)
    \/ \E w \in Workers : InsertStore(w)
    \/ \E k \in EvictKeys : CallAccess(k, 0)
    \/ Tick

SpecEvict == InitCache /\ [][NextEvict]_vars

\* The queue alone, driven by producers and consumers
NextQueue ==
    \/ \E p \in Priorities : TestPush(p)
    \/ NotifyOne
    \/ \E w \in Workers : TestPop(w)
    \/ \E w \in Workers : SpuriousWake(w)
    \/ QueueShutdown
    \/ NotifyAll

SpecQueue == InitCache /\ [][NextQueue]_vars

\* The queue alone under a fair scheduler: a thread that has left the mutex
\* owing a notification makes it, and a consumer inside pop that is not
\* blocked goes on. A consumer that holds an item need not call pop again.
SpecQueueLive ==
    /\ SpecQueue
    /\ WF_vars(NotifyOne)
    /\ WF_vars(NotifyAll)
    /\ \A w \in Workers : WF_vars(wpc[w] = "pop" /\ TestPop(w))

\* The mounted system: read callers and the fetcher pool over the cache
InitMount == InitCommon /\ max_size = MountCacheSize

NextRead ==
    \/ \E r \in Readers, k \in ReadKeys, o \in ReadOffsets, n \in ReadSizes :
            ReadCall(r, k, o, n)
    \/ \E r \in Readers : ReadProbe(r)
    \/ \E r \in Readers : ReadWait(r)
    \/ \E r \in Readers : ReadReprobe(r)
    \/ \E r \in Readers : ReadAccess(r)
    \/ \E w \in Workers : WorkerPop(w)
    \/ \E w \in Workers : WorkerGetObject(w)
    \/ \E w \in Workers : InsertEvict(w)
    \/ \E w \in Workers : InsertStore(w)
    \/ Tick

SpecRead == InitMount /\ [][NextRead]_vars

\* The mounted system with its predictor: files are opened and their first
\* bytes read while the predictor prefetches the successors
NextFetch ==
    \/ \E k \in ReadKeys : on_file_accessed(k)
    \/ PredictorWake
    \/ PredictorIssue
    \/ \E r \in Readers, k \in ReadKeys : ReadCall(r, k, 0, 1)
    \/ \E r \in Readers : ReadProbe(r)
    \/ \E r \in Readers : ReadWait(r)
    \/ \E r \in Readers : ReadReprobe(r)
    \/ \E r \in Readers : ReadAccess(r)
    \/ \E w \in Workers : WorkerPop(w)
    \/ \E w \in Workers : WorkerGetObject(w)
    \/ \E w \in Workers : InsertEvict(w)
    \/ \E w \in Workers : InsertStore(w)

SpecFetch == InitMount /\ [][NextFetch]_vars

\* The predictor alone: a manifest may be loaded, files are accessed, the
\* predictor thread sweeps and issues; no worker runs
NextPredict ==
    \/ \E f \in ManifestFiles : load_manifest(f)
    \/ \E k \in PredictNames : on_file_accessed(k)
    \/ PredictorWake
    \/ PredictorIssue

SpecPredict == InitMount /\ [][NextPredict]_vars

\* ENABLED <<PredictorWake>>_vars spelled out: the predictor sleeps and its
\* next turn would change something
WakeChanges ==
    /\ ppc = "sleep"
    /\ \/ KeepPending(in_flight_futures, promise) # in_flight_futures
       \/ in_flight \ CompletedKeys(in_flight_futures, promise) # in_flight
       \/ /\ last_accessed # NoKey
          /\ LET list == ToPrefetch(manifest_mode, manifest, last_accessed, Lookahead)
             IN \/ current # last_accessed
                \/ to_prefetch # list
                \/ list # <<>>
                \/ ~manifest_mode /\ HitsIntMax(last_accessed, Lookahead)

\* The predictor alone, its thread scheduled fairly: weak fairness of
\* PredictorWake (written with WakeChanges for ENABLED) and of PredictorIssue
SpecPredictLive ==
    /\ SpecPredict
    /\ ([]<>~WakeChanges) \/ ([]<><<PredictorWake>>_vars)
    /\ WF_vars(PredictorIssue)

\* The cache driven by the single thread of the eviction test
NextLru ==
    \/ \E i \in 1 .. Len(LruKeys) : LruInsert(LruKeys[i])
    \/ \E i \in 1 .. Len(LruKeys) : LruAccess(LruKeys[i])
    \/ InsertEvict(LruThread)
    \/ InsertStore(LruThread)
    \/ Tick

SpecLru == InitCache /\ [][NextLru]_vars

\* The fetcher pool alone: clients submit tasks, the workers execute them,
\* the pool is shut down and destroyed
SubmitKeys == {KA, KC}
SubmitOffsets == {0, DEFAULT_CHUNK_SIZE}

NextPool ==
    \/ \E k \in SubmitKeys, o \in SubmitOffsets, p \in Priorities : ClientSubmit(k, o, p)
    \/ \E w \in Workers : WorkerPop(w)
    \/ \E w \in Workers : WorkerGetObject(w)
    \/ \E w \in Workers : InsertEvict(w)
    \/ \E w \in Workers : InsertStore(w)
    \/ PoolShutdownFlag
    \/ PoolShutdownQueue
    \/ PoolDestroy

SpecPool == InitMount /\ [][NextPool]_vars

\* The fetcher pool shut down by two threads that each call shutdown() once,
\* at any time, while clients submit and the workers run
ShutdownCallers == {"t1", "t2"}
ShutdownKeys == {KA}
ShutdownPriorities == Priorities

NextShutdown ==
    \/ \E k \in ShutdownKeys, p \in ShutdownPriorities : ClientSubmit(k, 0, p)
    \/ \E w \in Workers : WorkerPop(w)
    \/ \E w \in Workers : WorkerGetObject(w)
    \/ \E w \in Workers : InsertEvict(w)
    \/ \E w \in Workers : InsertStore(w)
    \/ \E t \in ShutdownCallers : ShutdownExchange(t)
    \/ \E t \in ShutdownCallers : ShutdownQueue(t)
    \/ \E t \in ShutdownCallers : ShutdownJoin(t)

SpecShutdown == InitMount /\ [][NextShutdown]_vars

\* The same with the worker threads scheduled fairly: a worker that can take
\* its next step (a pop that has something to return, a request that is
\* answered, a cache call) eventually takes it
SpecShutdownLive ==
    /\ SpecShutdown
    /\ \A w \in Workers :
          /\ WF_vars(WorkerPop(w))
          /\ WF_vars(WorkerGetObject(w))
          /\ WF_vars(InsertEvict(w))
          /\ WF_vars(InsertStore(w))

\* The mounted context by its callbacks: files are opened, stat-ed and listed,
\* the context is started and stopped, and the pool is started directly
NextFuse ==
    \/ \E p \in Paths, f \in OpenFlags : Open(p, f)
    \/ \E p \in Paths : Getattr(p)
    \/ \E p \in Paths : Readdir(p)
    \/ FuseStart
    \/ FuseStartAgain
    \/ FuseStop
    \/ PoolStart

SpecFuse == InitMount /\ [][NextFuse]_vars

\* Threads that call the cache, the queue and the predictor's sweep in any
\* order, followed lock by lock
NextLocks ==
    \/ \E t \in LockThreads, prog \in LockPrograms : LockCall(t, prog)
    \/ \E t \in LockThreads : LockStep(t)

SpecLocks == InitMount /\ [][NextLocks]_vars

\* The mounted system started and stopped: files are accessed, the predictor
\* and the workers run, and the context is stopped (by destroy or by a
\* direct call of stop) step by step, started again, stopped again
NextStop ==
    \/ FuseStart
    \/ \E k \in ReadKeys : on_file_accessed(k)
    \/ PredictorWake
    \/ PredictorIssue
    \/ \E w \in Workers : WorkerPop(w)
    \/ \E w \in Workers : WorkerGetObject(w)
    \/ \E w \in Workers : InsertEvict(w)
    \/ \E w \in Workers : InsertStore(w)
    \/ StopBegin
    \/ StopNotStarted
    \/ StopPredictor
    \/ StopPredictorJoin
    \/ ShutdownExchange("ctx")
    \/ ShutdownQueue("ctx")
    \/ ShutdownJoin("ctx")
    \/ StopReturn

SpecStop == InitMount /\ [][NextStop]_vars

----------------------------------------------------------------------------
(* Claims *)

Busy(w) == wpc[w] \in {"evict", "store"}

\* C2: after every sequence of insert_chunk calls and evictions, replacement
\* of an already cached (key, offset) included, current_size equals the sum
\* of the data sizes of the chunks in the cache.
C2_SizeAccounting == cache.current_size = CachedBytes(cache)

\* C3: with several threads in insert_chunk, whenever no insert_chunk call is
\* in progress current_size <= max_size, except after an insert that found
\* the cache empty and stored a chunk larger than max_size.
C3_SizeBound ==
    (\A w \in Workers : ~Busy(w)) => (cache.current_size <= max_size \/ relaxed)

\* The item consumer w takes in this step, if it takes one
Takes(w) == wtask'[w] # wtask[w] /\ wtask'[w] # None

\* C5: whenever pop returns an item, no item of strictly higher priority
\* (a smaller enum value) is in the queue at that instant.
C5_PopHighestPriority ==
    [][\A w \in Workers : Takes(w) =>
          \A i \in 1 .. Len(queue_) : ~(queue_[i].priority < wtask'[w].priority)]_vars

\* C5 witness: an URGENT item pushed third, after two NORMAL ones, is in a
\* consumer's hand while both NORMAL items are still queued.
C5_Witness ==
    \E w \in Workers :
        /\ wtask[w] # None
        /\ wtask[w].priority = URGENT
        /\ wtask[w].data = 3
        /\ Len(queue_) = 2
        /\ \A i \in 1 .. 2 : queue_[i].priority = NORMAL

\* C6: of two items pushed with the same priority, the one pushed first is
\* popped first: when pop returns an item, no item of the same priority with
\* a smaller push number is in the queue.
C6_FifoWithinPriority ==
    [][\A w \in Workers : Takes(w) =>
          \A i \in 1 .. Len(queue_) :
              queue_[i].priority = wtask'[w].priority => queue_[i].data >= wtask'[w].data]_vars

\* Task h is queued or being executed by a worker
InFlightTask(h) ==
    \/ \E i \in 1 .. Len(queue_) : queue_[i].data = h
    \/ \E w \in Workers : wtask[w] # None /\ wtask[w].data = h

\* Tasks h1 and h2 fetch the same (key, chunk offset)
SameChunk(h1, h2) ==
    tasks[h1].s3_key = tasks[h2].s3_key /\ tasks[h1].offset = tasks[h2].offset

\* C4 as stated: at every instant at most one fetch task per (key, chunk
\* offset) is queued or executing, URGENT tasks of read and NORMAL tasks of
\* the predictor counted together.
C4_AtMostOneFetch ==
    \A h1, h2 \in 1 .. Len(tasks) :
        (h1 # h2 /\ InFlightTask(h1) /\ InFlightTask(h2)) => ~SameChunk(h1, h2)

\* C4 amended: at every instant at most one NORMAL task of the predictor per
\* (key, chunk offset) is queued or executing, and every queued or executing
\* URGENT task is the one task a read call of its own is blocked on; URGENT
\* tasks are not de-duplicated against each other or against a prefetch.
C4_AtMostOnePrefetch ==
    /\ \A h1, h2 \in 1 .. Len(tasks) :
          (h1 # h2 /\ InFlightTask(h1) /\ InFlightTask(h2)
             /\ tasks[h1].priority = NORMAL /\ tasks[h2].priority = NORMAL)
          => ~SameChunk(h1, h2)
    /\ \A h \in 1 .. Len(tasks) :
          (InFlightTask(h) /\ tasks[h].priority = URGENT)
          => \E r \in Readers : rpc[r] = "wait" /\ rhandle[r] = h
    /\ \A h \in 1 .. Len(tasks) :
          (InFlightTask(h) /\ tasks[h].priority = NORMAL)
          => tasks[h].s3_key \in in_flight

\* C4 witness: the predictor's NORMAL task for the successor of the file
\* last accessed is in flight and tracked, its loop is back asleep, and an
\* URGENT task of a read for the same chunk is in flight beside it.
C4_Witness ==
    \E h1, h2 \in 1 .. Len(tasks) :
        /\ InFlightTask(h1) /\ InFlightTask(h2)
        /\ tasks[h1].priority = NORMAL /\ tasks[h2].priority = URGENT
        /\ SameChunk(h1, h2)
        /\ ppc = "sleep"
        /\ \E i \in 1 .. Len(in_flight_futures) : in_flight_futures[i].handle = h1
        /\ last_accessed # NoKey
        /\ tasks[h1].s3_key = predict_next_sequential(last_accessed)

Returned(r) == rpc[r] = "done" /\ rresult[r] >= 0

\* C1: for every read(key, off, len) that returns n >= 0, the n bytes in the
\* caller's buffer are object(key)[off : off+n].
C1_ReadReturnsObjectBytes ==
    \A r \in Readers : Returned(r) =>
        LET obj == Object(rarg[r].key)
            off == rarg[r].offset
            n == rresult[r]
        IN /\ Len(rbuf[r]) = n
           /\ off + n <= Len(obj)
           /\ \A i \in 1 .. n : rbuf[r][i] = obj[off + i]

\* The task read submits for the chunk its current frame needs
UrgentTask(r) ==
    PrefetchTask(rarg[r].key, ChunkOffset(roff[r]), DEFAULT_CHUNK_SIZE, URGENT)

\* C7: on a miss read submits an URGENT task for (key, chunk_off, CHUNK_SIZE)
\* and blocks on its handle; if the handle resolves false, or true with the
\* chunk absent at the second get_chunk, read returns EIO and copies nothing
\* for that chunk.
C7_MissPath ==
    /\ [](\A r \in Readers : rpc[r] = "wait" =>
             /\ rhandle[r] \in 1 .. Len(tasks)
             /\ tasks[rhandle[r]] = UrgentTask(r))
    /\ [][\A r \in Readers :
            /\ (rpc[r] = "probe" /\ rpc'[r] # "probe"
                /\ get_chunk(cache, rarg[r].key, ChunkOffset(roff[r])) = None)
               => (rpc'[r] = "wait" /\ tasks' = Append(tasks, UrgentTask(r))
                   /\ rhandle'[r] = Len(tasks'))
            /\ (rpc[r] = "wait" /\ promise[rhandle[r]] = "pending") => rpc'[r] = "wait"
            /\ (rpc[r] = "wait" /\ rpc'[r] # "wait" /\ promise[rhandle[r]] # "true")
               => (rpc'[r] = "done" /\ rresult'[r] = -EIO /\ rbuf'[r] = rbuf[r])
            /\ (rpc[r] = "reprobe" /\ rpc'[r] # "reprobe"
                /\ get_chunk(cache, rarg[r].key, ChunkOffset(roff[r])) = None)
               => (rpc'[r] = "done" /\ rresult'[r] = -EIO /\ rbuf'[r] = rbuf[r])]_vars

\* C7 witness: a read has returned EIO because the chunk, downloaded with
\* success, was gone at the second get_chunk; nothing was copied.
C7_Witness ==
    \E r \in Readers :
        /\ rpc[r] = "done"
        /\ rresult[r] = -EIO
        /\ rerr[r].at = "reprobe"
        /\ rbuf[r] = <<>>

\* C8: read terminates: it does not recurse after a chunk shorter than
\* CHUNK_SIZE supplied fewer bytes than requested, and its frames never
\* exhaust the stack.
C8_ReadTerminates ==
    \A r \in Readers : ~rshort[r] /\ rpc[r] # "overflow"

\* C9: a read whose offset is at or beyond the end of the file returns 0 and
\* copies nothing.
C9_ReadPastEof ==
    \A r \in Readers :
        (rpc[r] # "idle" /\ rarg[r].offset >= Len(Object(rarg[r].key))) =>
            /\ rpc[r] \notin {"overflow", "fault"}
            /\ rbuf[r] = <<>>
            /\ rpc[r] = "done" => rresult[r] = 0

\* C10: a read that starts inside an object whose size is a multiple of
\* CHUNK_SIZE and asks for more than remains does not return an error
\* because the chunk past the last one could not be fetched.
C10_ExactMultipleEof ==
    \A r \in Readers :
        ~ /\ rpc[r] = "done"
          /\ rresult[r] = -EIO
          /\ Len(Object(rarg[r].key)) % DEFAULT_CHUNK_SIZE = 0
          /\ rarg[r].offset < Len(Object(rarg[r].key))
          /\ rerr[r].chunk >= Len(Object(rarg[r].key))

\* The arguments of a read that crosses the end of a full first chunk and
\* ends inside the object
Spanning(a) ==
    /\ ChunkOffset(a.offset) + DEFAULT_CHUNK_SIZE <= Len(Object(a.key))
    /\ a.offset + a.size > ChunkOffset(a.offset) + DEFAULT_CHUNK_SIZE
    /\ a.offset + a.size <= Len(Object(a.key))

\* The chunk of the object of key that starts at chunk-aligned offset off
ObjectChunk(key, off) ==
    SubSeq(Object(key), off + 1, Min(off + DEFAULT_CHUNK_SIZE, Len(Object(key))))

\* Chunk (key, off) is cached in c with exactly the object's bytes
CachedAsStored(c, key, off) ==
    /\ get_chunk(c, key, off) # None
    /\ get_chunk(c, key, off).data = ObjectChunk(key, off)

C12_ShutdownResolvesQueued ==
    PoolStopped => \A i \in 1 .. Len(queue_) : promise[queue_[i].data] = "false"

\* C13: a submit called after the pool's shutdown enqueues nothing and
\* returns a handle that resolves to the value false.
C13_SubmitAfterShutdown ==
    [][(PoolStopped /\ Len(tasks') = Len(tasks) + 1)
          => (queue_' = queue_ /\ promise'[Len(tasks')] = "false")]_vars

\* C14: a worker that has its task's object with a non-empty body calls
\* insert_chunk(key, offset, body, zone) with zone HOT for an URGENT task and
\* PREFETCH otherwise, after which the chunk is cached at (key, offset) and
\* the handle resolves to true; on a failure or an empty body nothing is
\* inserted and the handle resolves to false. A handle is resolved once, and
\* a task is in the hands of one worker and never popped again.
C14_WorkerExecutesTask ==
    /\ [](\A w1, w2 \in Workers :
             (w1 # w2 /\ wtask[w1] # None /\ wtask[w2] # None)
             => wtask[w1].data # wtask[w2].data)
    /\ [](\A w \in Workers : wtask[w] # None =>
             \A i \in 1 .. Len(queue_) : queue_[i].data # wtask[w].data)
    /\ [][/\ \A h \in DOMAIN promise :
               promise[h] # "pending" => promise'[h] = promise[h]
          /\ \A w \in Workers :
               /\ Takes(w) => promise[wtask'[w].data] = "pending"
               /\ (wpc[w] = "download" /\ wpc'[w] # "download") =>
                     LET h == wtask[w].data
                         t == tasks[h]
                     IN /\ promise[h] = "pending"
                        /\ \/ /\ promise'[h] = "false"
                              /\ cache' = cache
                              /\ wpc'[w] \in {"pop", "exited"}
                           \/ /\ promise'[h] = "pending"
                              /\ wpc'[w] = "evict"
                              /\ wcall'[w].s3_key = t.s3_key
                              /\ wcall'[w].offset = t.offset
                              /\ wcall'[w].data = ObjectChunk(t.s3_key, t.offset)
                              /\ wcall'[w].data # <<>>
                              /\ wcall'[w].zone =
                                    (IF t.priority = URGENT THEN HOT ELSE PREFETCH)
               /\ (wpc[w] = "store" /\ wpc'[w] # "store" /\ wtask[w] # None) =>
                     LET h == wtask[w].data
                     IN /\ promise[h] = "pending"
                        /\ promise'[h] = "true"
                        /\ get_chunk(cache', wcall[w].s3_key, wcall[w].offset) # None
                        /\ get_chunk(cache', wcall[w].s3_key, wcall[w].offset).data
                              = wcall[w].data]_vars

\* C14 witness: a NORMAL task has resolved to true with its chunk cached in
\* an entry of zone PREFETCH, an URGENT task has resolved to true, and a task
\* for an object that does not exist has resolved to false.
C14_Witness ==
    \E h1, h2, h3 \in 1 .. Len(tasks) :
        /\ promise[h1] = "true" /\ tasks[h1].priority = NORMAL
        /\ CachedAsStored(cache, tasks[h1].s3_key, tasks[h1].offset)
        /\ cache.files[tasks[h1].s3_key].zone = PREFETCH
        /\ promise[h2] = "true" /\ tasks[h2].priority = URGENT
        /\ promise[h3] = "false" /\ ~Exists(tasks[h3].s3_key)

\* The number of positions of list s that hold key k
Occurrences(s, k) == Cardinality({i \in 1 .. Len(s) : s[i] = k})

\* C15: in every reachable cache state each key that has a FileEntry is
\* exactly once in hot_lru and prefetch_fifo together, in the list of its
\* entry's zone, and neither list holds a key without a FileEntry.
C15_ZoneLists ==
    /\ \A k \in DOMAIN cache.files :
          /\ Occurrences(cache.hot_lru, k) + Occurrences(cache.prefetch_fifo, k) = 1
          /\ cache.files[k].zone = HOT => Occurrences(cache.hot_lru, k) = 1
          /\ cache.files[k].zone = PREFETCH => Occurrences(cache.prefetch_fifo, k) = 1
    /\ \A i \in 1 .. Len(cache.hot_lru) : cache.hot_lru[i] \in DOMAIN cache.files
    /\ \A i \in 1 .. Len(cache.prefetch_fifo) : cache.prefetch_fifo[i] \in DOMAIN cache.files

\* C15 witness: three calls are done and none is in progress; the cache
\* holds a HOT entry, alone in hot_lru, and a PREFETCH entry, alone in
\* prefetch_fifo.
C15_Witness ==
    /\ ncalls = 3
    /\ \A w \in Workers : ~Busy(w)
    /\ cache.hot_lru = <<KA>>
    /\ cache.prefetch_fifo = <<KB>>
    /\ DOMAIN cache.files = {KA, KB}
    /\ cache.files[KA].zone = HOT
    /\ cache.files[KB].zone = PREFETCH

\* A step that is a call of access by a thread driving the cache alone
AccessStep == ncalls' = ncalls + 1 /\ wcall' = wcall

LruPosition(c) ==
    CHOOSE i \in 1 .. Len(c.hot_lru) :
        \A j \in 1 .. Len(c.hot_lru) :
            \/ OldestChunkTime(c.files[c.hot_lru[i]]) < OldestChunkTime(c.files[c.hot_lru[j]])
            \/ /\ OldestChunkTime(c.files[c.hot_lru[i]]) = OldestChunkTime(c.files[c.hot_lru[j]])
               /\ i <= j

\* C17: when an insertion needs room and hot_lru is the only non-empty
\* list, the HOT entry with the least recently accessed chunk, the earliest
\* in hot_lru among equals, is evicted, and no entry is left out of hot_lru;
\* with max_size = 3 units, after the four inserts of test_lru_eviction
\* (each followed by an access) f1 is absent, f2..f4 are present and
\* current_size <= 3 units.
C17_LruEviction ==
    /\ [][\A w \in Workers :
            (wpc[w] = "evict" /\ wpc'[w] # "evict"
               /\ cache.prefetch_fifo = <<>> /\ cache.hot_lru # <<>>
               /\ cache.current_size + Len(wcall[w].data) > max_size)
            => /\ ~contains(cache', cache.hot_lru[LruPosition(cache)])
               /\ wpc'[w] = "store"]_vars
    /\ []((script /\ max_size = 3 /\ ncalls >= 2 * Len(LruKeys) - 1
            /\ wpc[LruThread] = "pop")
           => /\ ~contains(cache, LruKeys[1])
              /\ \A i \in 2 .. Len(LruKeys) : contains(cache, LruKeys[i])
              /\ cache.current_size <= 3)

\* C17 witness: the scenario has run to its end: f4 was inserted into a
\* full cache and accessed, f1 is gone and f2, f3, f4 fill hot_lru.
C17_Witness ==
    /\ script
    /\ ncalls = 2 * Len(LruKeys)
    /\ wpc[LruThread] = "pop"
    /\ cache.hot_lru = SubSeq(LruKeys, 2, Len(LruKeys))
    /\ ~contains(cache, LruKeys[1])
    /\ cache.current_size = 3

\* Sequence t is what is left of s after some of its first elements are removed
IsSuffix(t, s) == Len(t) <= Len(s) /\ t = SubSeq(s, Len(s) - Len(t) + 1, Len(s))

\* C18: an eviction removes whole FileEntries from the head of
\* prefetch_fifo, oldest first, and takes a HOT entry only once
\* prefetch_fifo is empty; an evicted entry leaves no chunk behind and no
\* entry that stays loses a chunk.
C18_PrefetchEvictedFirst ==
    [][\A w \in Workers :
         (wpc[w] = "evict" /\ wpc'[w] # "evict") =>
            /\ IsSuffix(cache'.prefetch_fifo, cache.prefetch_fifo)
            /\ EvictedOf(cache, cache', HOT) # {} => cache'.prefetch_fifo = <<>>
            /\ cache'.prefetch_fifo # <<>> => cache'.hot_lru = cache.hot_lru
            /\ \A k \in DOMAIN cache.files :
                  \/ ~contains(cache', k)
                  \/ cache'.files[k] = cache.files[k]
            /\ \A i \in 1 .. Len(cache.prefetch_fifo) - Len(cache'.prefetch_fifo) :
                  ~contains(cache', cache.prefetch_fifo[i])
            /\ DOMAIN cache'.files \subseteq DOMAIN cache.files]_vars

\* C18 witness: an insert that needed room has evicted the PREFETCH entry
\* and nothing else; the HOT entry that was in the cache with it is there.
C18_Witness ==
    \E w \in Workers :
        /\ wpc[w] = "store"
        /\ wcall[w].evicted_prefetch # {}
        /\ wcall[w].evicted_hot = {}
        /\ cache.hot_lru # <<>>
        /\ \A i \in 1 .. Len(cache.hot_lru) : contains(cache, cache.hot_lru[i])

\* C19: in the state insert_chunk(key, offset, bytes, zone) returns in,
\* get_chunk(key, offset) yields exactly bytes, whatever the call evicted
\* (the entry of key included) and also when bytes is larger than max_size.
C19_InsertThenGet ==
    [][\A w \in Workers :
         (wpc[w] = "store" /\ wpc'[w] # "store") =>
            /\ get_chunk(cache', wcall[w].s3_key, wcall[w].offset) # None
            /\ get_chunk(cache', wcall[w].s3_key, wcall[w].offset).data = wcall[w].data]_vars

\* C19 witness: an insert of a chunk larger than max_size has returned: it
\* had emptied the cache, and the chunk is the cache's only content.
C19_Witness ==
    /\ relaxed
    /\ \A w \in Workers : ~Busy(w)
    /\ \E k \in CacheKeys, o \in CacheOffsets :
          /\ DOMAIN cache.files = {k}
          /\ DOMAIN cache.files[k].chunks = {o}
          /\ Len(get_chunk(cache, k, o).data) > max_size

\* C20: get_chunk leaves the whole cache state unchanged, whether it
\* returns a chunk or absent: no access time, no zone, neither zone list
\* and not current_size differs after the call.
C20_GetChunkReadOnly ==
    [][\A r \in Readers :
         (rpc[r] \in {"probe", "reprobe"} /\ rpc'[r] # rpc[r]) => cache' = cache]_vars

\* C20 witness: a read has found its chunk at the first get_chunk, after
\* the clock advanced: the cached chunk still has its earlier access time.
C20_Witness ==
    \E r \in Readers :
        /\ rpc[r] = "access"
        /\ rhandle[r] = 0
        /\ get_chunk(cache, rarg[r].key, ChunkOffset(roff[r])) = rchunk[r]
        /\ rchunk[r].last_access_time < now

\* The items held by queue q
Items(q) == {q[i] : i \in 1 .. Len(q)}

\* C21: pop returns the closed sentinel only if the queue is shut down and
\* empty at that moment; shutdown leaves the queued items in place, and a pop
\* made after shutdown on a non-empty queue returns one of its items, of the
\* highest priority present, and removes that item alone.
C21_ClosedOnlyWhenDrained ==
    [][/\ \A w \in Workers :
             (wpc[w] # "exited" /\ wpc'[w] = "exited") => (q_shutdown /\ queue_ = <<>>)
       /\ (~q_shutdown /\ q_shutdown') => queue_' = queue_
       /\ (q_shutdown /\ queue_' # queue_) =>
             \E w \in Workers :
                /\ Takes(w)
                /\ wtask'[w] \in Items(queue_)
                /\ Items(queue_') = Items(queue_) \ {wtask'[w]}
                /\ Len(queue_') = Len(queue_) - 1
                /\ \A it \in Items(queue_) : wtask'[w].priority <= it.priority]_vars

\* C21 witness: after shutdown one consumer was handed the URGENT item pushed
\* second while the NORMAL item pushed first is still queued, and the other
\* consumer, once the queue was drained, got the closed sentinel.
C21_Witness ==
    \E w1, w2 \in Workers :
        /\ q_shutdown
        /\ wpc[w1] = "hold" /\ pop_hist[w1].closed
        /\ wtask[w1] = [data |-> 2, priority |-> URGENT]
        /\ tasks[1].priority = NORMAL
        /\ wpc[w2] = "exited"

\* C22: no consumer stays blocked in pop forever: a consumer inside pop when
\* the queue is shut down eventually returns, and a consumer blocked while the
\* queue holds an item eventually returns, unless other consumers have taken
\* every item first.
C22_NoConsumerStuck ==
    /\ \A w \in Workers :
          (q_shutdown /\ wpc[w] \in {"pop", "wait"}) ~> (wpc[w] \in {"hold", "exited"})
    /\ \A w \in Workers :
          (wpc[w] = "wait" /\ queue_ # <<>>)
             ~> (wpc[w] \in {"hold", "exited"} \/ queue_ = <<>>)

\* C22 witness: a consumer that had blocked on the empty queue holds the item
\* of a later push, and the other consumer, which had blocked too, was
\* released by shutdown with the closed sentinel.
C22_Witness ==
    \E w1, w2 \in Workers :
        /\ wpc[w1] = "hold" /\ pop_hist[w1].waited /\ ~pop_hist[w1].closed
        /\ wpc[w2] = "exited" /\ pop_hist[w2].waited

\* C23: once the queue is shut down it stays shut down; a push made then
\* leaves the queue as it was (same items, same size), owes no notification
\* and wakes nobody; a further shutdown call leaves the queue and the flag as
\* they were.
C23_PushAfterShutdownNoop ==
    [][/\ q_shutdown => q_shutdown'
       /\ (q_shutdown /\ Len(tasks') > Len(tasks)) =>
             (queue_' = queue_ /\ cv_due' = cv_due /\ wpc' = wpc /\ wtask' = wtask)
       /\ (q_shutdown /\ cv_due'.all /\ ~cv_due.all) =>
             (queue_' = queue_ /\ wpc' = wpc /\ wtask' = wtask)]_vars

\* C23 witness: the queue is shut down and empty, one push has been made, and
\* no consumer has returned from pop: the item was pushed after the shutdown
\* and dropped.
C23_Witness ==
    /\ q_shutdown
    /\ Len(tasks) = 1
    /\ queue_ = <<>>
    /\ \A w \in Workers : wpc[w] \in {"pop", "wait"} /\ wtask[w] = None

\* C27: predict_next_sequential applied to prefix.digits.suffix, the suffix
\* starting at the dot that ends the first such run of digits, returns the
\* name with the digits incremented as a decimal numeral of the same width
\* (one digit longer when every digit is 9), and none for a name without
\* such a run; the list built for an access is the chain of the first
\* lookahead successors, each computed from the one before.
C27_PatternSuccessor ==
    LET RECURSIVE Inc(_)
        Inc(d) == IF d = <<>> THEN <<"1">>
                  ELSE IF d[Len(d)] = "9" THEN Inc(SubSeq(d, 1, Len(d) - 1)) \o <<"0">>
                  ELSE SubSeq(d, 1, Len(d) - 1) \o <<Digits[DigitVal(d[Len(d)]) + 2]>>
        Runs(name) == {ij \in (1 .. Len(name)) \X (1 .. Len(name)) :
                         /\ ij[1] <= ij[2] /\ ij[2] < Len(name)
                         /\ \A k \in ij[1] .. ij[2] : IsDigit(name[k])
                         /\ name[ij[2] + 1] = "."}
        Succ(name) == IF Runs(name) = {} THEN NoKey
                      ELSE LET ij == CHOOSE r \in Runs(name) :
                                        \A q \in Runs(name) : r[1] <= q[1]
                           IN SubSeq(name, 1, ij[1] - 1)
                                 \o Inc(SubSeq(name, ij[1], ij[2]))
                                 \o SubSeq(name, ij[2] + 1, Len(name))
        RECURSIVE Chain(_, _)
        Chain(name, n) == IF n = 0 \/ Succ(name) = NoKey THEN <<>>
                          ELSE <<Succ(name)>> \o Chain(Succ(name), n - 1)
    IN (~manifest_mode /\ current # NoKey) => to_prefetch = Chain(current, Lookahead)

\* C24: in pattern mode every access notification on_access(k) leads, for
\* each of the first lookahead successors of k, to a state in which a NORMAL
\* task for (successor, offset 0, one chunk) has been submitted, or the
\* successor is cached or in flight (or the run has reached the bound on
\* tasks). Stated for the accesses of s1.b, whose successors are s2.b and
\* s3.b.
C24_EveryAccessPrefetched ==
    \A j \in 1 .. Lookahead :
        (last_accessed = KA /\ ~manifest_mode)
           ~> LET key == PatternChain(KA, Lookahead)[j]
              IN \/ \E h \in 1 .. Len(tasks) :
                       tasks[h] = PrefetchTask(key, 0, DEFAULT_CHUNK_SIZE, NORMAL)
                 \/ contains(cache, key)
                 \/ key \in in_flight
                 \/ Len(tasks) = MaxTasks

\* The NORMAL tasks for key whose promise is not yet resolved
Unresolved(key) ==
    {h \in 1 .. Len(tasks) :
        tasks[h].s3_key = key /\ tasks[h].priority = NORMAL /\ promise[h] = "pending"}

\* C25: at every instant the predictor has at most one unresolved task of
\* its own per key, and every step in which the predictor submits a task
\* submits a key that is neither in its in-flight set nor in the cache at
\* that step.
C25_OneUnresolvedPerKey ==
    /\ [](\A h \in 1 .. Len(tasks) :
            (tasks[h].priority = NORMAL /\ promise[h] = "pending")
            => /\ Cardinality(Unresolved(tasks[h].s3_key)) = 1
               /\ tasks[h].s3_key \in in_flight)
    /\ [][(Len(tasks') > Len(tasks) /\ tasks'[Len(tasks')].priority = NORMAL)
           => /\ tasks'[Len(tasks')].s3_key \notin in_flight
              /\ ~contains(cache, tasks'[Len(tasks')].s3_key)
              /\ in_flight' = in_flight \cup {tasks'[Len(tasks')].s3_key}]_vars

\* C25 witness: after the access of s1.b and then of s2.b the predictor has
\* swept twice and sleeps: s3.b, a successor of both, was submitted once and
\* passed over the second time while still unresolved, and s4.b submitted.
C25_Witness ==
    /\ ppc = "sleep" /\ current = KB /\ to_prefetch = <<KC, KD>>
    /\ Cardinality(Unresolved(KC)) = 1
    /\ Cardinality(Unresolved(KD)) = 1
    /\ \E h \in 1 .. Len(tasks) : tasks[h].s3_key = KB /\ tasks[h].priority = NORMAL
    /\ \A h \in 1 .. Len(tasks) :
          tasks[h].priority = NORMAL => Cardinality({g \in 1 .. Len(tasks) :
              tasks[g].priority = NORMAL /\ tasks[g].s3_key = tasks[h].s3_key}) = 1

\* C26: in manifest mode the list built for an accessed key is exactly the
\* manifest entries at the lookahead positions after the key's position
\* that lie inside the manifest, and is empty for a key the manifest does
\* not hold; manifest mode is on exactly when the manifest has an entry, so
\* a loaded file of comments and blank lines only leaves pattern mode on.
C26_ManifestPrediction ==
    LET Blank(c) == c \in {" ", "\t", "\r", "\n"}
        NoEntry(line) ==
            \/ \A i \in 1 .. Len(line) : Blank(line[i])
            \/ \E i \in 1 .. Len(line) :
                  line[i] = "#" /\ \A j \in 1 .. i - 1 : Blank(line[j])
        Found == {i \in 1 .. Len(manifest) : manifest[i] = current}
        pos == CHOOSE i \in Found : \A j \in Found : i <= j
        After == {j \in 1 .. Lookahead : pos + j <= Len(manifest)}
    IN /\ manifest_mode <=> manifest # <<>>
       /\ (manifest_mode /\ current # NoKey /\ Found = {}) => to_prefetch = <<>>
       /\ (manifest_mode /\ current # NoKey /\ Found # {})
             => /\ Len(to_prefetch) = Cardinality(After)
                /\ \A j \in After : to_prefetch[j] = manifest[pos + j]
       /\ (fret.op = "load_manifest" /\ fret.ret = 1
             /\ \A n \in 1 .. Len(fret.path) : NoEntry(fret.path[n]))
             => ~manifest_mode /\ manifest = <<>>

\* C26 witness: with the manifest s2.b, s1.b, s4.b loaded, s2.b was accessed
\* and the predictor built the list s1.b, s4.b (its pattern successors would
\* be s3.b, s4.b).
C26_Witness ==
    /\ manifest_mode /\ manifest = <<KB, KA, KD>>
    /\ current = KB /\ to_prefetch = <<KA, KD>>
    /\ PatternChain(KB, Lookahead) = <<KC, KD>>

\* C28: an open whose access mode (the two low bits of the flags) is not
\* read-only returns -EACCES and changes neither the predictor's last
\* accessed key nor the metadata size map nor anything else; a read-only
\* open returns 0, makes the key the predictor's last accessed key, and
\* leaves the map as it was when the key is present, adding the key with
\* the placeholder size and touching no other entry when it is absent.
C28_OpenReadOnly ==
    [][\A p \in Paths, f \in OpenFlags :
          Open(p, f) =>
             LET key == Tail(p)
             IN IF f % 4 # 0
                THEN /\ fret'.ret = -EACCES
                     /\ UNCHANGED <<cachevars, queuevars, workervars, readvars,
                                    predvars, ncalls, cvvars, file_sizes,
                                    is_started, workers_>>
                ELSE /\ fret'.ret = 0
                     /\ last_accessed' = key
                     /\ DOMAIN file_sizes' = DOMAIN file_sizes \cup {key}
                     /\ \A k \in DOMAIN file_sizes : file_sizes'[k] = file_sizes[k]
                     /\ key \notin DOMAIN file_sizes => file_sizes'[key] = 1073741824]_vars

\* C28 witness: s1.b was opened read-only and is in the map with the
\* placeholder size; the last call, open of /s2.b with O_RDWR, returned
\* -EACCES, and s2.b is neither in the map nor the last accessed key.
C28_Witness ==
    /\ fret.op = "open" /\ fret.path = <<"/">> \o KB /\ fret.flags = 2
    /\ fret.ret = -EACCES
    /\ DOMAIN file_sizes = {KA} /\ file_sizes[KA] = PlaceholderSize
    /\ last_accessed = KA

C30_StartIdempotent == workers_ <= Cardinality(Workers)

\* C33: every read that has its chunk in hand, from a hit or after its URGENT
\* fetch, notifies the predictor with the key: the step in which read calls
\* cache->access and copies leaves the key as the predictor's last accessed
\* key.
C33_ReadNotifiesPredictor ==
    [][\A r \in Readers : ReadAccess(r) => last_accessed' = rarg[r].key]_vars

\* A read call on its hit path takes the step from its first get_chunk
HitProbe(r) ==
    /\ rpc[r] = "probe" /\ rpc'[r] # "probe"
    /\ get_chunk(cache, rarg[r].key, ChunkOffset(roff[r])) # None

\* A read call that has submitted no task takes the step of access and copy
HitAccess(r) ==
    rpc[r] = "access" /\ rpc'[r] # "access" /\ rhandle[r] = 0

\* The bytes of the chunk in hand that the frame of r asks for
FromChunk(r) ==
    SubSeq(rchunk[r].data, OffsetInChunk(roff[r]) + 1,
           Min(OffsetInChunk(roff[r]) + rsize[r], Len(rchunk[r].data)))

\* The key of r's call was stored by prefetches alone and read by r alone: its
\* entry was created in PREFETCH and only r's touch_access can have promoted it
PrefetchedFor(r) ==
    /\ \A h \in 1 .. Len(tasks) :
          tasks[h].s3_key = rarg[r].key => tasks[h].priority # URGENT
    /\ \A q \in Readers \ {r} : rpc[q] = "idle" \/ rarg[q].key # rarg[r].key

\* C34 as stated: a read that finds its chunk in the cache submits no task
\* and adds nothing to the queue, copies from the chunk get_chunk returned,
\* and after its touch_access a key that was in PREFETCH is in the cache in
\* zone HOT.
C34_HitPromotes ==
    [][\A r \in Readers :
          /\ HitProbe(r)
               => /\ tasks' = tasks /\ queue_' = queue_ /\ promise' = promise
                  /\ rchunk'[r] = get_chunk(cache, rarg[r].key, ChunkOffset(roff[r]))
          /\ HitAccess(r)
               => /\ tasks' = tasks /\ queue_' = queue_ /\ promise' = promise
                  /\ rbuf'[r] = rbuf[r] \o FromChunk(r)
                  /\ PrefetchedFor(r)
                       => /\ contains(cache', rarg[r].key)
                          /\ cache'.files[rarg[r].key].zone = HOT]_vars

\* C34 amended: a read that finds its chunk in the cache submits no task and
\* adds nothing to the queue, and copies from the chunk get_chunk returned;
\* its touch_access leaves the key in zone HOT, in hot_lru and out of
\* prefetch_fifo, if the key is still in the cache at that step, and leaves
\* the cache as it is if the entry was evicted since get_chunk.
C34_HitPromotesIfCached ==
    [][\A r \in Readers :
          /\ HitProbe(r)
               => /\ tasks' = tasks /\ queue_' = queue_ /\ promise' = promise
                  /\ rchunk'[r] = get_chunk(cache, rarg[r].key, ChunkOffset(roff[r]))
          /\ HitAccess(r)
               => /\ tasks' = tasks /\ queue_' = queue_ /\ promise' = promise
                  /\ rbuf'[r] = rbuf[r] \o FromChunk(r)
                  /\ contains(cache, rarg[r].key)
                       => /\ contains(cache', rarg[r].key)
                          /\ cache'.files[rarg[r].key].zone = HOT
                          /\ \E i \in 1 .. Len(cache'.hot_lru) :
                                cache'.hot_lru[i] = rarg[r].key
                          /\ \A i \in 1 .. Len(cache'.prefetch_fifo) :
                                cache'.prefetch_fifo[i] # rarg[r].key
                  /\ ~contains(cache, rarg[r].key) => cache' = cache]_vars

\* C34 witness: s2.b was fetched by a NORMAL task of the predictor only (no
\* URGENT task for it exists), a read of its first byte has returned that
\* byte, and s2.b is in the cache in zone HOT.
C34_Witness ==
    \E r \in Readers :
        /\ rpc[r] = "done" /\ rarg[r].key = KB /\ rresult[r] = 1
        /\ rbuf[r] = <<Object(KB)[1]>>
        /\ \A h \in 1 .. Len(tasks) : tasks[h].s3_key = KB => tasks[h].priority = NORMAL
        /\ \E h \in 1 .. Len(tasks) : tasks[h].s3_key = KB /\ promise[h] = "true"
        /\ contains(cache, KB) /\ cache.files[KB].zone = HOT

\* C35: in every step, a key whose FileEntry exists before and after keeps
\* zone HOT and its place in hot_lru if it was HOT, whatever zone an
\* insert_chunk into it names; and a change of its zone is from PREFETCH to
\* HOT and made by an access call.
C35_NeverDemoted ==
    [][\A k \in CacheKeys :
          (contains(cache, k) /\ contains(cache', k))
          => /\ cache.files[k].zone = HOT
                  => /\ cache'.files[k].zone = HOT
                     /\ Occurrences(cache'.hot_lru, k) = 1
                     /\ Occurrences(cache'.prefetch_fifo, k) = 0
             /\ cache'.files[k].zone # cache.files[k].zone
                  => /\ cache.files[k].zone = PREFETCH /\ cache'.files[k].zone = HOT
                     /\ AccessStep
                     /\ \E o \in CacheOffsets : cache' = access(cache, k, o, now)]_vars

\* C35 witness: an insert_chunk with zone PREFETCH has stored into an entry
\* that was HOT, no access has promoted anything, and an entry with two
\* chunks is in zone HOT and in hot_lru.
C35_Witness ==
    /\ kept_hot /\ promoted = NoKey
    /\ \E k \in CacheKeys :
          /\ contains(cache, k) /\ cache.files[k].zone = HOT
          /\ DOMAIN cache.files[k].chunks = CacheOffsets
          /\ Occurrences(cache.hot_lru, k) = 1

\* C36: every sweep of the predictor (a step of its sleeping thread)
\* removes from the in-flight set each tracked key whose handle is resolved,
\* with true, with false or broken,
\* and drops its handle, and keeps the keys whose handle is pending; every
\* key of the set has a tracked handle, so none stays for ever; and a key
\* that is neither in the set nor cached is submitted whenever the predictor
\* comes to it, whatever became of earlier tasks for it.
C36_SweepRemovesResolved ==
    /\ [](\A k \in in_flight :
            \E i \in 1 .. Len(in_flight_futures) : in_flight_futures[i].key = k)
    /\ [][(/\ ppc = "sleep" /\ ppc' # "crashed"
            /\ <<in_flight, in_flight_futures, current, to_prefetch, ppc, ptodo>>'
                  # <<in_flight, in_flight_futures, current, to_prefetch, ppc, ptodo>>)
            => \A i \in 1 .. Len(in_flight_futures) :
                 LET f == in_flight_futures[i]
                 IN IF promise[f.handle] # "pending"
                    THEN /\ f.key \notin in_flight'
                         /\ \A n \in 1 .. Len(in_flight_futures') :
                               in_flight_futures'[n] # f
                    ELSE /\ f.key \in in_flight'
                         /\ \E n \in 1 .. Len(in_flight_futures') :
                               in_flight_futures'[n] = f]_vars
    /\ [][(/\ ppc = "issue" /\ ptodo' # ptodo
            /\ Head(ptodo) \notin in_flight /\ ~contains(cache, Head(ptodo)))
            => /\ tasks' = Append(tasks, PrefetchTask(Head(ptodo), 0, DEFAULT_CHUNK_SIZE, NORMAL))
               /\ Head(ptodo) \in in_flight']_vars

\* C36 witness: a NORMAL task for a key resolved with false, and a later
\* NORMAL task for the same key has been submitted and is tracked.
C36_Witness ==
    \E h1, h2 \in 1 .. Len(tasks) :
        /\ h1 < h2 /\ tasks[h1].s3_key = tasks[h2].s3_key
        /\ tasks[h1].priority = NORMAL /\ tasks[h2].priority = NORMAL
        /\ promise[h1] = "false"
        /\ tasks[h2].s3_key \in in_flight
        /\ \E i \in 1 .. Len(in_flight_futures) : in_flight_futures[i].handle = h2

\* C40: evict_if_needed terminates for every cache state and key: no call of
\* insert_chunk is left in an eviction loop whose iteration removes nothing
\* while the loop condition holds.
C40_EvictTerminates == \A w \in Workers : wpc[w] # "hung"

\* C32: two read calls with the same key, offset and size that both return
\* a count n >= 0 have returned the same count and the same bytes, whatever
\* the other call, the workers and the cache did in between.
C32_ReadIdempotent ==
    \A r1, r2 \in Readers :
        (Returned(r1) /\ Returned(r2) /\ rarg[r1] = rarg[r2])
        => (rresult[r1] = rresult[r2] /\ rbuf[r1] = rbuf[r2])

\* An URGENT task h is waiting or being downloaded while the pool has not
\* begun to shut down: it was submitted before the shutdown
UrgentPending(h) ==
    /\ h <= Len(tasks)
    /\ tasks[h].priority = URGENT
    /\ promise[h] = "pending"
    /\ ~shutdown_flag

\* The handle of task h is resolved with the outcome of its download
Resolved(h) == h <= Len(promise) /\ promise[h] \in {"true", "false"}

C31_ReturnedMeansStopped ==
    \A t \in ShutdownCallers :
        spc[t] = "returned" => \A w \in Workers : wpc[w] = "exited"

\* The predictor thread submits a task in this step
PredictorSubmits == ppc = "issue" /\ Len(tasks') = Len(tasks) + 1

\* C37: FuseContext::stop (and destroy, which calls it) stops the predictor
\* and joins its thread before the pool's shutdown begins: once
\* shutdown_flag_ is set the predictor thread has left its loop and it never
\* submits a task; and stop on a context that was never started changes
\* neither flag.
C37_PredictorStoppedFirst ==
    /\ [](shutdown_flag => (stop_flag /\ ppc = "exited"))
    /\ [](workers_ = 0 => (~stop_flag /\ ~shutdown_flag /\ fpc = "idle"))
    /\ [][PredictorSubmits => (~shutdown_flag /\ ~shutdown_flag')]_vars

\* The pool is shut down after the predictor had submitted tasks and was
\* stopped while it still had keys of its list to issue
C37_Witness ==
    /\ shutdown_flag
    /\ ppc = "exited"
    /\ Len(tasks) >= 2
    /\ fpc = "pool"

HoldsLock(t, l) == \E h \in lheld[t] : h.lock = l
HoldsEntry(t) == \E f \in LockEntries : HoldsLock(t, f)
Requests(t, l) ==
    lprog[t] # <<>> /\ Head(lprog[t]).op = "lock" /\ Head(lprog[t]).lock = l

\* C38: a per-entry lock is only held (so only acquired) inside the global
\* cache lock, the global lock is never requested by a thread that holds a
\* per-entry lock, the in-flight mutex is never held while a cache or queue
\* lock is requested or held, and whatever the interleaving of the calls some
\* thread with a call in progress can always go on: there is no deadlock.
C38_LockOrder ==
    /\ \A t \in LockThreads :
          /\ HoldsEntry(t) => HoldsLock(t, "cache_mutex_")
          /\ Requests(t, "cache_mutex_") => ~HoldsEntry(t)
          /\ HoldsLock(t, "in_flight_mutex_") =>
                /\ lheld[t] = {[lock |-> "in_flight_mutex_", mode |-> "unique"]}
                /\ \A l \in LockEntries \cup {"cache_mutex_", "mutex_"} : ~Requests(t, l)
    /\ (\E t \in LockThreads : lprog[t] # <<>>) => (\E t \in LockThreads : CanStep(t))

\* One thread is inside the cache and entry locks of an insert or access,
\* another waits for the cache lock, and the predictor's thread holds the
\* in-flight mutex
C38_Witness ==
    \E t, u, v \in LockThreads :
        /\ HoldsLock(t, "cache_mutex_") /\ HoldsEntry(t)
        /\ Requests(u, "cache_mutex_") /\ ~CanStep(u)
        /\ HoldsLock(v, "in_flight_mutex_")
====
